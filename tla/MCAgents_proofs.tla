--------------------------- MODULE MCAgents_proofs ---------------------------
(***************************************************************************)
(* What subagents, shell jobs, servers of tools, language servers and the  *)
(* extraction of memories keep to, for every value of the constants that   *)
(* the run "agents" gives a value to.  Each part has an invariant of its   *)
(* own, kept by every step of the part; the last section puts them         *)
(* together.                                                               *)
(***************************************************************************)
EXTENDS MCAgents, FiniteSetTheorems, SequenceTheorems, WellFoundedInduction, TLAPS

-----------------------------------------------------------------------------
(* Subagents (AgentCoordinator): for any set of agents, of which some are  *)
(* workers, any number of threads and any order of their steps.            *)

Fields == {"state", "token", "talks", "saved", "followups", "inbox", "last"}

\* The records are records, and the queue is one of agents that are in it once.
TeamIsWhole ==
    /\ DOMAIN record = Agent /\ \A a \in Agent : DOMAIN record[a] = Fields
       /\ record[a].followups \in Nat
    /\ DOMAIN at = Agent /\ pool \in Seq(Agent) /\ open \subseteq Agent
QueuedOnce == \A i, j \in DOMAIN pool : i # j => pool[i] # pool[j]

\* A run is one of an open agent that is active and can be interrupted; it waits for a thread or
\* is in one.
RunsAreOfAgents ==
    \A a \in Agent :
        /\ at[a] # "none" \/ A!Waits(a)
              => record[a].state \in A!Active /\ record[a].token # "none" /\ a \in open
        /\ ~(at[a] # "none" /\ A!Waits(a))

\* A run that has its conversation talks; one in its turn is running, and at its end nothing is
\* left to follow.
RunsAreInPlace ==
    \A a \in Agent :
        /\ at[a] \notin {"none", "start"} => record[a].talks
        /\ at[a] \in {"turn", "look", "settle", "take", "finish"} => record[a].state = "running"
        /\ at[a] = "finish" => record[a].followups = 0

\* An agent that was not spawned yet, or is being closed, is not open.
ClosedAreGone == \A a \in Agent : record[a].state \in {"none", "closing", "closed"} => a \notin open

WorkersAlone == \A a, b \in open \intersect Worker : a = b

TeamInv ==
    /\ TeamIsWhole /\ QueuedOnce /\ RunsAreOfAgents /\ RunsAreInPlace /\ ClosedAreGone
    /\ A!FollowupsAreTaken /\ A!WorkersAreIsolated /\ WorkersAlone

LEMMA QueueGrows ==
    ASSUME NEW a \in Agent, pool \in Seq(Agent), QueuedOnce, ~A!Waits(a), pool' = Append(pool, a)
    PROVE  pool' \in Seq(Agent) /\ QueuedOnce' /\ \A b : A!Waits(b)' <=> A!Waits(b) \/ b = a
  BY DEF QueuedOnce, A!Waits

LEMMA QueueShrinks ==
    ASSUME NEW a, a = Head(pool), pool \in Seq(Agent), QueuedOnce, pool # <<>>, pool' = Tail(pool)
    PROVE  /\ pool' \in Seq(Agent) /\ QueuedOnce' /\ a \in Agent /\ A!Waits(a)
           /\ ~A!Waits(a)' /\ \A b : A!Waits(b)' => A!Waits(b)
  <1>1. /\ pool' \in Seq(Agent) /\ Len(pool') = Len(pool) - 1 /\ Len(pool) \in Nat /\ Len(pool) > 0
        /\ \A k \in 1 .. Len(pool) - 1 : pool'[k] = pool[k + 1]
        /\ a = pool[1] /\ a \in Agent
    OBVIOUS
  <1>2. DOMAIN pool = 1 .. Len(pool) /\ DOMAIN pool' = 1 .. Len(pool) - 1 BY <1>1
  <1>3. QueuedOnce' BY <1>1, <1>2 DEF QueuedOnce
  <1>4. A!Waits(a) BY <1>1, <1>2 DEF A!Waits
  <1>5. ~A!Waits(a)' BY <1>1, <1>2 DEF A!Waits, QueuedOnce
  <1>6. \A b : A!Waits(b)' => A!Waits(b) BY <1>1, <1>2 DEF A!Waits
  <1>7. QED BY <1>1, <1>3, <1>4, <1>5, <1>6

LEMMA QueueLoses ==
    ASSUME NEW a \in Agent, pool \in Seq(Agent), QueuedOnce, A!Waits(a), pool' = A!Without(a)
    PROVE  pool' \in Seq(Agent) /\ QueuedOnce' /\ ~A!Waits(a)' /\ \A b : A!Waits(b)' => A!Waits(b)
  <1> DEFINE i == CHOOSE i \in DOMAIN pool : pool[i] = a
  <1>1. i \in 1 .. Len(pool) /\ pool[i] = a /\ Len(pool) \in Nat BY DEF A!Waits
  <1>2. pool' = SubSeq(pool, 1, i - 1) \o SubSeq(pool, i + 1, Len(pool)) BY DEF A!Without
  <1> HIDE DEF i
  <1>3. /\ pool' \in Seq(Agent) /\ Len(pool') = Len(pool) - 1
        /\ \A k \in 1 .. Len(pool) - 1 : pool'[k] = IF k < i THEN pool[k] ELSE pool[k + 1]
    <2> DEFINE s == SubSeq(pool, 1, i - 1)
               t == SubSeq(pool, i + 1, Len(pool))
    <2>1. s \in Seq(Agent) /\ Len(s) = i - 1 /\ \A k \in 1 .. i - 1 : s[k] = pool[k] BY <1>1
    <2>2. t \in Seq(Agent) /\ Len(t) = Len(pool) - i
             /\ \A k \in 1 .. Len(pool) - i : t[k] = pool[k + i]
      BY <1>1
    <2> HIDE DEF s, t
    <2>3. pool' = s \o t BY <1>2 DEF s, t
    <2>c. /\ s \o t \in Seq(Agent) /\ Len(s \o t) = Len(s) + Len(t)
          /\ \A k \in 1 .. Len(s) + Len(t) : (s \o t)[k] = IF k <= Len(s) THEN s[k]
             ELSE t[k - Len(s)]
      BY <2>1, <2>2, ConcatProperties
    <2>4. pool' \in Seq(Agent) /\ Len(pool') = Len(pool) - 1 BY <1>1, <2>1, <2>2, <2>3, <2>c
    <2>5. ASSUME NEW k \in 1 .. Len(pool) - 1
          PROVE pool'[k] = IF k < i THEN pool[k] ELSE pool[k + 1]
      <3>1. k \in 1 .. Len(s) + Len(t) BY <1>1, <2>1, <2>2
      <3>2. pool'[k] = IF k <= i - 1 THEN s[k] ELSE t[k - (i - 1)] BY <3>1, <2>1, <2>3, <2>c
      <3>3. CASE k < i BY <3>2, <3>3, <1>1, <2>1
      <3>4. CASE ~(k < i)
        <4>1. k - (i - 1) \in 1 .. Len(pool) - i /\ k - (i - 1) + i = k + 1 BY <3>4, <1>1
        <4>2. QED BY <4>1, <3>2, <3>4, <1>1, <2>2
      <3>5. QED BY <3>3, <3>4
    <2>6. QED BY <2>4, <2>5
  <1>4. DOMAIN pool = 1 .. Len(pool) /\ DOMAIN pool' = 1 .. Len(pool) - 1 BY <1>3
  <1>5. QueuedOnce' BY <1>1, <1>3, <1>4 DEF QueuedOnce
  <1>6. ~A!Waits(a)' BY <1>1, <1>3, <1>4 DEF QueuedOnce, A!Waits
  <1>7. \A b : A!Waits(b)' => A!Waits(b) BY <1>1, <1>3, <1>4 DEF A!Waits
  <1>8. QED BY <1>3, <1>5, <1>6, <1>7

\* What a record says after some of its fields were set.
LEMMA FieldsAreSet ==
    ASSUME NEW a \in Agent, NEW fields, A!Set(a, fields), DOMAIN record = Agent,
              DOMAIN record[a] = Fields
    PROVE  /\ DOMAIN record' = Agent /\ DOMAIN record'[a] = Fields
           /\ \A f \in Fields : record'[a][f] = IF f \in DOMAIN fields THEN fields[f]
              ELSE record[a][f]
           /\ \A b \in Agent : b # a => record'[b] = record[b]
  BY DEF A!Set

USE DEF A!Active, A!Terminal

LEMMA TeamCounts == ASSUME NEW S PROVE A!Cardinality(S) = Cardinality(S)
  BY DEF A!Cardinality, Cardinality

LEMMA TeamInit == ASSUME HelpersAssumption, A!Init PROVE TeamInv
  <1> USE DEF HelpersAssumption
  <1>0. /\ DOMAIN record = Agent /\ DOMAIN at = Agent /\ pool = <<>> /\ open \subseteq Agent
        /\ \A a \in Agent : /\ DOMAIN record[a] = Fields /\ record[a].followups = 0
           /\ at[a] = "none"
                            /\ record[a].talks = FALSE
                            /\ record[a].state = IF a \in open THEN "completed" ELSE "none"
    <2>1. DOMAIN A!Unborn = Fields /\ A!Unborn.followups = 0 /\ A!Unborn.talks = FALSE
             /\ A!Unborn.state = "none"
      BY DEF A!Unborn, Fields
    <2>2. DOMAIN A!Restored = Fields /\ A!Restored.followups = 0 /\ A!Restored.talks = FALSE
             /\ A!Restored.state = "completed"
      BY DEF A!Unborn, A!Restored, Fields
    <2>3. QED BY <2>1, <2>2 DEF A!Init
  <1>1. TeamIsWhole BY <1>0 DEF TeamIsWhole
  <1>2. QueuedOnce /\ \A a \in Agent : ~A!Waits(a) BY <1>0 DEF QueuedOnce, A!Waits
  <1>3. RunsAreOfAgents /\ RunsAreInPlace /\ ClosedAreGone
    BY <1>0, <1>2 DEF RunsAreOfAgents, RunsAreInPlace, ClosedAreGone
  <1>4. A!FollowupsAreTaken /\ A!WorkersAreIsolated
    BY <1>0 DEF A!Init, A!FollowupsAreTaken, A!WorkersAreIsolated
  <1>5. WorkersAlone
    <2>a. open \in SUBSET Agent BY <1>0
    <2>b. Cardinality(open) <= 1 BY TeamCounts DEF A!Init
    <2>1. open \in SUBSET Agent /\ Cardinality(open) <= 1 BY <2>a, <2>b
    <2>2. IsFiniteSet(open) BY <2>1, FS_Subset
    <2>3. ASSUME NEW a \in open, NEW b \in open PROVE a = b
      <3>1. Cardinality(open) = 0 \/ Cardinality(open) = 1 BY <2>1, <2>2, FS_CardinalityType
      <3>2. \E c : open = {c} BY <2>2, <2>3, <3>1, FS_EmptySet, FS_Singleton
      <3>3. QED BY <3>2, <2>3
    <2>4. QED BY <2>3 DEF WorkersAlone
  <1>6. QED BY <1>1, <1>2, <1>3, <1>4, <1>5 DEF TeamInv

LEMMA Spawned == ASSUME HelpersAssumption, TeamInv, NEW a \in Agent, A!Spawn(a) PROVE TeamInv'
  <1> USE DEF TeamInv, HelpersAssumption
  <1>1. DOMAIN record[a] = Fields /\ ~A!Waits(a) /\ at[a] = "none"
    BY DEF TeamIsWhole, A!Spawn, RunsAreOfAgents
  <1>2. pool' \in Seq(Agent) /\ QueuedOnce' /\ \A b : A!Waits(b)' <=> A!Waits(b) \/ b = a
    BY <1>1, QueueGrows DEF A!Spawn, TeamIsWhole
  <1>0. PICK fields : fields = [state |-> "queued", token |-> "live"] OBVIOUS
  <1>a. A!Set(a, fields) BY <1>0 DEF A!Spawn
  <1>b. DOMAIN fields = {"state", "token"} /\ fields.state = "queued" /\ fields.token = "live"
    BY <1>0
  <1>3. /\ DOMAIN record' = Agent /\ DOMAIN record'[a] = Fields
        /\ record'[a].state = "queued" /\ record'[a].token = "live"
        /\ record'[a].talks = record[a].talks
        /\ record'[a].followups = record[a].followups
        /\ \A b \in Agent : b # a => record'[b] = record[b]
    BY <1>1, <1>a, <1>b, FieldsAreSet DEF TeamIsWhole, Fields
  <1>4. TeamIsWhole' BY <1>1, <1>2, <1>3 DEF TeamIsWhole, A!Spawn
  <1>5. RunsAreOfAgents' BY <1>1, <1>2, <1>3 DEF RunsAreOfAgents, A!Spawn, TeamIsWhole
  <1>6. RunsAreInPlace' BY <1>1, <1>3 DEF RunsAreInPlace, A!Spawn, TeamIsWhole
  <1>7. ClosedAreGone' BY <1>1, <1>3 DEF ClosedAreGone, A!Spawn, TeamIsWhole
  <1>8. A!FollowupsAreTaken' BY <1>1, <1>3 DEF A!FollowupsAreTaken, A!Spawn, TeamIsWhole
  <1>9. A!WorkersAreIsolated' BY <1>1, <1>3 DEF A!WorkersAreIsolated, A!Spawn, TeamIsWhole
  <1>10. WorkersAlone' BY DEF WorkersAlone, A!Spawn
  <1>11. QED BY <1>2, <1>4, <1>5, <1>6, <1>7, <1>8, <1>9, <1>10

\* What a record says of a run that ended.
LEMMA RunEnded ==
    ASSUME NEW a \in Agent, NEW state0, A!Ended(a, state0), DOMAIN record = Agent,
              DOMAIN record[a] = Fields
    PROVE  /\ DOMAIN record' = Agent /\ DOMAIN record'[a] = Fields
           /\ record'[a].state \in {state0, "failed"} /\ record'[a].token = "none"
           /\ record'[a].talks = record[a].talks /\ record'[a].followups = record[a].followups
           /\ \A b \in Agent : b # a => record'[b] = record[b]
  <1>1. PICK end \in {state0, "failed"} : A!Set(a, [state |-> end, token |-> "none"]) BY DEF A!Ended
  <1>2. DOMAIN [state |-> end, token |-> "none"] = {"state", "token"} OBVIOUS
  <1>3. QED BY <1>1, <1>2, FieldsAreSet DEF Fields

LEMMA Sent == ASSUME HelpersAssumption, TeamInv, NEW a \in Agent, A!Send(a) PROVE TeamInv'
  <1> USE DEF TeamInv, HelpersAssumption
  <1>1. DOMAIN record[a] = Fields /\ DOMAIN record = Agent /\ record[a].followups \in Nat
    BY DEF TeamIsWhole
  <1>2. pool' = pool /\ \A b : A!Waits(b)' <=> A!Waits(b) BY DEF A!Send, A!Waits
  <1>3. CASE (record[a].state = "queued" \/ ~record[a].talks)
                /\ A!Set(a, [followups |-> record[a].followups + 1])
    <2>3. A!Set(a, [followups |-> record[a].followups + 1]) BY <1>3
    <2>4. DOMAIN [followups |-> record[a].followups + 1] = {"followups"} OBVIOUS
    <2>5. /\ DOMAIN record' = Agent /\ DOMAIN record'[a] = Fields
          /\ record'[a].followups = record[a].followups + 1 /\ record'[a].state = record[a].state
          /\ record'[a].token = record[a].token /\ record'[a].talks = record[a].talks
          /\ \A b \in Agent : b # a => record'[b] = record[b]
      BY <1>1, <2>3, <2>4, FieldsAreSet DEF Fields
    <2>6. record'[a].followups \in Nat BY <1>1, <1>3, <2>5
    <2>20. TeamIsWhole' BY <1>1, <1>2, <1>3, <2>5, <2>6 DEF TeamIsWhole, A!Send, A!Message
    <2>21. QueuedOnce'
      BY <1>1, <1>2, <1>3, <2>5, <2>6 DEF QueuedOnce, A!Send, A!Message, TeamIsWhole
    <2>22. RunsAreOfAgents'
      BY <1>1, <1>2, <1>3, <2>5, <2>6 DEF RunsAreOfAgents, A!Send, A!Message, TeamIsWhole
    <2>23. RunsAreInPlace'
      BY <1>1, <1>2, <1>3, <2>5, <2>6
      DEF RunsAreInPlace, A!Send, A!Message, RunsAreOfAgents, TeamIsWhole
    <2>24. ClosedAreGone'
      BY <1>1, <1>2, <1>3, <2>5, <2>6 DEF ClosedAreGone, A!Send, A!Message, TeamIsWhole
    <2>25. A!FollowupsAreTaken'
      BY <1>1, <1>2, <1>3, <2>5, <2>6
      DEF A!FollowupsAreTaken, A!Send, A!Message, RunsAreOfAgents, RunsAreInPlace, TeamIsWhole
    <2>26. A!WorkersAreIsolated'
      BY <1>1, <1>2, <1>3, <2>5, <2>6
      DEF A!WorkersAreIsolated, A!Send, A!Message, RunsAreOfAgents, ClosedAreGone, TeamIsWhole
    <2>27. WorkersAlone'
      BY <1>1, <1>2, <1>3, <2>5, <2>6 DEF WorkersAlone, A!Send, A!Message, TeamIsWhole
    <2>28. QED BY <2>20, <2>21, <2>22, <2>23, <2>24, <2>25, <2>26, <2>27
  <1>4. CASE record[a].state = "running" /\ record[a].talks
                /\ A!Set(a, [inbox |-> record[a].inbox + 1])
    <2>3. A!Set(a, [inbox |-> record[a].inbox + 1]) BY <1>4
    <2>4. DOMAIN [inbox |-> record[a].inbox + 1] = {"inbox"} OBVIOUS
    <2>5. /\ DOMAIN record' = Agent /\ DOMAIN record'[a] = Fields
          /\ record'[a].state = record[a].state /\ record'[a].token = record[a].token
          /\ record'[a].talks = record[a].talks /\ record'[a].followups = record[a].followups
          /\ \A b \in Agent : b # a => record'[b] = record[b]
      BY <1>1, <2>3, <2>4, FieldsAreSet DEF Fields
    <2>6. record'[a].followups \in Nat BY <1>1, <1>4, <2>5
    <2>20. TeamIsWhole' BY <1>1, <1>2, <1>4, <2>5, <2>6 DEF TeamIsWhole, A!Send, A!Message
    <2>21. QueuedOnce'
      BY <1>1, <1>2, <1>4, <2>5, <2>6 DEF QueuedOnce, A!Send, A!Message, TeamIsWhole
    <2>22. RunsAreOfAgents'
      BY <1>1, <1>2, <1>4, <2>5, <2>6 DEF RunsAreOfAgents, A!Send, A!Message, TeamIsWhole
    <2>23. RunsAreInPlace'
      BY <1>1, <1>2, <1>4, <2>5, <2>6
      DEF RunsAreInPlace, A!Send, A!Message, RunsAreOfAgents, TeamIsWhole
    <2>24. ClosedAreGone'
      BY <1>1, <1>2, <1>4, <2>5, <2>6 DEF ClosedAreGone, A!Send, A!Message, TeamIsWhole
    <2>25. A!FollowupsAreTaken'
      BY <1>1, <1>2, <1>4, <2>5, <2>6
      DEF A!FollowupsAreTaken, A!Send, A!Message, RunsAreOfAgents, RunsAreInPlace, TeamIsWhole
    <2>26. A!WorkersAreIsolated'
      BY <1>1, <1>2, <1>4, <2>5, <2>6
      DEF A!WorkersAreIsolated, A!Send, A!Message, RunsAreOfAgents, ClosedAreGone, TeamIsWhole
    <2>27. WorkersAlone'
      BY <1>1, <1>2, <1>4, <2>5, <2>6 DEF WorkersAlone, A!Send, A!Message, TeamIsWhole
    <2>28. QED BY <2>20, <2>21, <2>22, <2>23, <2>24, <2>25, <2>26, <2>27
  <1>5. QED BY <1>3, <1>4 DEF A!Send, A!Message

LEMMA FollowedUp == ASSUME HelpersAssumption, TeamInv, NEW a \in Agent, A!Followup(a) PROVE TeamInv'
  <1> USE DEF TeamInv, HelpersAssumption
  <1>1. DOMAIN record[a] = Fields /\ DOMAIN record = Agent /\ record[a].followups \in Nat
    BY DEF TeamIsWhole
  <1>3. CASE record[a].state = "running" /\ record[a].talks
                /\ A!Set(a, [inbox |-> record[a].inbox + 1]) /\ UNCHANGED pool
    <2>2. pool' = pool /\ \A b : A!Waits(b)' <=> A!Waits(b) BY <1>3 DEF A!Waits
    <2>3. A!Set(a, [inbox |-> record[a].inbox + 1]) BY <1>3
    <2>4. DOMAIN [inbox |-> record[a].inbox + 1] = {"inbox"} OBVIOUS
    <2>5. /\ DOMAIN record' = Agent /\ DOMAIN record'[a] = Fields
          /\ record'[a].state = record[a].state /\ record'[a].token = record[a].token
          /\ record'[a].talks = record[a].talks /\ record'[a].followups = record[a].followups
          /\ \A b \in Agent : b # a => record'[b] = record[b]
      BY <1>1, <2>3, <2>4, FieldsAreSet DEF Fields
    <2>6. record'[a].followups \in Nat BY <1>1, <1>3, <2>5
    <2>20. TeamIsWhole' BY <1>1, <2>2, <1>3, <2>5, <2>6 DEF TeamIsWhole, A!Followup, A!Message
    <2>21. QueuedOnce'
      BY <1>1, <2>2, <1>3, <2>5, <2>6 DEF QueuedOnce, A!Followup, A!Message, TeamIsWhole
    <2>22. RunsAreOfAgents'
      BY <1>1, <2>2, <1>3, <2>5, <2>6 DEF RunsAreOfAgents, A!Followup, A!Message, TeamIsWhole
    <2>23. RunsAreInPlace'
      BY <1>1, <2>2, <1>3, <2>5, <2>6
      DEF RunsAreInPlace, A!Followup, A!Message, RunsAreOfAgents, TeamIsWhole
    <2>24. ClosedAreGone'
      BY <1>1, <2>2, <1>3, <2>5, <2>6 DEF ClosedAreGone, A!Followup, A!Message, TeamIsWhole
    <2>25. A!FollowupsAreTaken'
      BY <1>1, <2>2, <1>3, <2>5, <2>6
      DEF A!FollowupsAreTaken, A!Followup, A!Message, RunsAreOfAgents, RunsAreInPlace, TeamIsWhole
    <2>26. A!WorkersAreIsolated'
      BY <1>1, <2>2, <1>3, <2>5, <2>6
      DEF A!WorkersAreIsolated, A!Followup, A!Message, RunsAreOfAgents, ClosedAreGone, TeamIsWhole
    <2>27. WorkersAlone'
      BY <1>1, <2>2, <1>3, <2>5, <2>6 DEF WorkersAlone, A!Followup, A!Message, TeamIsWhole
    <2>28. QED BY <2>20, <2>21, <2>22, <2>23, <2>24, <2>25, <2>26, <2>27
  <1>4. CASE record[a].state = "queued" /\ A!Set(a, [followups |-> record[a].followups + 1])
                /\ UNCHANGED pool
    <2>2. pool' = pool /\ \A b : A!Waits(b)' <=> A!Waits(b) BY <1>4 DEF A!Waits
    <2>3. A!Set(a, [followups |-> record[a].followups + 1]) BY <1>4
    <2>4. DOMAIN [followups |-> record[a].followups + 1] = {"followups"} OBVIOUS
    <2>5. /\ DOMAIN record' = Agent /\ DOMAIN record'[a] = Fields
          /\ record'[a].followups = record[a].followups + 1 /\ record'[a].state = record[a].state
          /\ record'[a].token = record[a].token /\ record'[a].talks = record[a].talks
          /\ \A b \in Agent : b # a => record'[b] = record[b]
      BY <1>1, <2>3, <2>4, FieldsAreSet DEF Fields
    <2>6. record'[a].followups \in Nat BY <1>1, <1>4, <2>5
    <2>20. TeamIsWhole' BY <1>1, <2>2, <1>4, <2>5, <2>6 DEF TeamIsWhole, A!Followup, A!Message
    <2>21. QueuedOnce'
      BY <1>1, <2>2, <1>4, <2>5, <2>6 DEF QueuedOnce, A!Followup, A!Message, TeamIsWhole
    <2>22. RunsAreOfAgents'
      BY <1>1, <2>2, <1>4, <2>5, <2>6 DEF RunsAreOfAgents, A!Followup, A!Message, TeamIsWhole
    <2>23. RunsAreInPlace'
      BY <1>1, <2>2, <1>4, <2>5, <2>6
      DEF RunsAreInPlace, A!Followup, A!Message, RunsAreOfAgents, TeamIsWhole
    <2>24. ClosedAreGone'
      BY <1>1, <2>2, <1>4, <2>5, <2>6 DEF ClosedAreGone, A!Followup, A!Message, TeamIsWhole
    <2>25. A!FollowupsAreTaken'
      BY <1>1, <2>2, <1>4, <2>5, <2>6
      DEF A!FollowupsAreTaken, A!Followup, A!Message, RunsAreOfAgents, RunsAreInPlace, TeamIsWhole
    <2>26. A!WorkersAreIsolated'
      BY <1>1, <2>2, <1>4, <2>5, <2>6
      DEF A!WorkersAreIsolated, A!Followup, A!Message, RunsAreOfAgents, ClosedAreGone, TeamIsWhole
    <2>27. WorkersAlone'
      BY <1>1, <2>2, <1>4, <2>5, <2>6 DEF WorkersAlone, A!Followup, A!Message, TeamIsWhole
    <2>28. QED BY <2>20, <2>21, <2>22, <2>23, <2>24, <2>25, <2>26, <2>27
  <1>5. CASE record[a].talks /\ record[a].state \in A!Terminal /\ pool' = Append(pool, a)
                /\ A!Set(a, [state |-> "queued", token |-> "live", last |-> "user"])
    <2>1. ~A!Waits(a) /\ at[a] = "none"
      BY <1>5 DEF RunsAreOfAgents, TeamIsWhole, A!Message, A!Followup
    <2>2. pool' \in Seq(Agent) /\ QueuedOnce' /\ \A b : A!Waits(b)' <=> A!Waits(b) \/ b = a
      BY <1>5, <2>1, QueueGrows DEF TeamIsWhole
    <2>3. A!Set(a, [state |-> "queued", token |-> "live", last |-> "user"]) BY <1>5
    <2>4. DOMAIN [state |-> "queued", token |-> "live", last |-> "user"] = {"state", "token",
             "last"}
      OBVIOUS
    <2>5. /\ DOMAIN record' = Agent /\ DOMAIN record'[a] = Fields
          /\ record'[a].state = "queued" /\ record'[a].token = "live"
          /\ record'[a].talks = record[a].talks /\ record'[a].followups = record[a].followups
          /\ \A b \in Agent : b # a => record'[b] = record[b]
      BY <1>1, <2>3, <2>4, FieldsAreSet DEF Fields
    <2>6. record'[a].followups \in Nat BY <1>1, <1>5, <2>5
    <2>20. TeamIsWhole' BY <1>1, <2>1, <2>2, <1>5, <2>5, <2>6 DEF TeamIsWhole, A!Followup, A!Message
    <2>21. QueuedOnce'
      BY <1>1, <2>1, <2>2, <1>5, <2>5, <2>6 DEF QueuedOnce, A!Followup, A!Message, TeamIsWhole
    <2>22. RunsAreOfAgents'
      BY <1>1, <2>1, <2>2, <1>5, <2>5, <2>6 DEF RunsAreOfAgents, A!Followup, A!Message, TeamIsWhole
    <2>23. RunsAreInPlace'
      BY <1>1, <2>1, <2>2, <1>5, <2>5, <2>6
      DEF RunsAreInPlace, A!Followup, A!Message, RunsAreOfAgents, TeamIsWhole
    <2>24. ClosedAreGone'
      BY <1>1, <2>1, <2>2, <1>5, <2>5, <2>6 DEF ClosedAreGone, A!Followup, A!Message, TeamIsWhole
    <2>25. A!FollowupsAreTaken'
      BY <1>1, <2>1, <2>2, <1>5, <2>5, <2>6
      DEF A!FollowupsAreTaken, A!Followup, A!Message, RunsAreOfAgents, RunsAreInPlace, TeamIsWhole
    <2>26. A!WorkersAreIsolated'
      BY <1>1, <2>1, <2>2, <1>5, <2>5, <2>6
      DEF A!WorkersAreIsolated, A!Followup, A!Message, RunsAreOfAgents, ClosedAreGone, TeamIsWhole
    <2>27. WorkersAlone'
      BY <1>1, <2>1, <2>2, <1>5, <2>5, <2>6 DEF WorkersAlone, A!Followup, A!Message, TeamIsWhole
    <2>28. QED BY <2>20, <2>21, <2>22, <2>23, <2>24, <2>25, <2>26, <2>27
  <1>6. CASE ~record[a].talks /\ record[a].state \in A!Terminal /\ pool' = Append(pool, a)
                /\ A!Set(a, [state |-> "queued", token |-> "live", followups |-> record[a].followups + 1])
    <2>1. ~A!Waits(a) /\ at[a] = "none"
      BY <1>6 DEF RunsAreOfAgents, TeamIsWhole, A!Message, A!Followup
    <2>2. pool' \in Seq(Agent) /\ QueuedOnce' /\ \A b : A!Waits(b)' <=> A!Waits(b) \/ b = a
      BY <1>6, <2>1, QueueGrows DEF TeamIsWhole
    <2>3. A!Set(a, [state |-> "queued", token |-> "live", followups |-> record[a].followups + 1])
      BY <1>6
    <2>4. DOMAIN [state |-> "queued", token |-> "live",
             followups |-> record[a].followups + 1] = {"state", "token", "followups"}
      OBVIOUS
    <2>5. /\ DOMAIN record' = Agent /\ DOMAIN record'[a] = Fields
          /\ record'[a].state = "queued" /\ record'[a].token = "live"
          /\ record'[a].followups = record[a].followups + 1 /\ record'[a].talks = record[a].talks
          /\ \A b \in Agent : b # a => record'[b] = record[b]
      BY <1>1, <2>3, <2>4, FieldsAreSet DEF Fields
    <2>6. record'[a].followups \in Nat BY <1>1, <1>6, <2>5
    <2>20. TeamIsWhole' BY <1>1, <2>1, <2>2, <1>6, <2>5, <2>6 DEF TeamIsWhole, A!Followup, A!Message
    <2>21. QueuedOnce'
      BY <1>1, <2>1, <2>2, <1>6, <2>5, <2>6 DEF QueuedOnce, A!Followup, A!Message, TeamIsWhole
    <2>22. RunsAreOfAgents'
      BY <1>1, <2>1, <2>2, <1>6, <2>5, <2>6 DEF RunsAreOfAgents, A!Followup, A!Message, TeamIsWhole
    <2>23. RunsAreInPlace'
      BY <1>1, <2>1, <2>2, <1>6, <2>5, <2>6
      DEF RunsAreInPlace, A!Followup, A!Message, RunsAreOfAgents, TeamIsWhole
    <2>24. ClosedAreGone'
      BY <1>1, <2>1, <2>2, <1>6, <2>5, <2>6 DEF ClosedAreGone, A!Followup, A!Message, TeamIsWhole
    <2>25. A!FollowupsAreTaken'
      BY <1>1, <2>1, <2>2, <1>6, <2>5, <2>6
      DEF A!FollowupsAreTaken, A!Followup, A!Message, RunsAreOfAgents, RunsAreInPlace, TeamIsWhole
    <2>26. A!WorkersAreIsolated'
      BY <1>1, <2>1, <2>2, <1>6, <2>5, <2>6
      DEF A!WorkersAreIsolated, A!Followup, A!Message, RunsAreOfAgents, ClosedAreGone, TeamIsWhole
    <2>27. WorkersAlone'
      BY <1>1, <2>1, <2>2, <1>6, <2>5, <2>6 DEF WorkersAlone, A!Followup, A!Message, TeamIsWhole
    <2>28. QED BY <2>20, <2>21, <2>22, <2>23, <2>24, <2>25, <2>26, <2>27
  <1>7. QED BY <1>3, <1>4, <1>5, <1>6 DEF A!Followup, A!Message

LEMMA Interrupted ==
    ASSUME HelpersAssumption, TeamInv, NEW a \in Agent, A!Interrupt(a)
    PROVE  TeamInv'
  <1> USE DEF TeamInv, HelpersAssumption
  <1>1. DOMAIN record[a] = Fields /\ DOMAIN record = Agent /\ record[a].followups \in Nat
    BY DEF TeamIsWhole
  <1>3. CASE A!Waits(a)
    <2>2. pool' \in Seq(Agent) /\ QueuedOnce' /\ ~A!Waits(a)' /\ (\A b : A!Waits(b)' => A!Waits(b))
      BY <1>3, QueueLoses DEF A!Interrupt, TeamIsWhole
    <2>3. A!Ended(a, "interrupted") BY <1>3 DEF A!Interrupt
    <2>5. /\ DOMAIN record' = Agent /\ DOMAIN record'[a] = Fields
          /\ record'[a].state \in {"interrupted", "failed"} /\ record'[a].token = "none"
          /\ record'[a].talks = record[a].talks /\ record'[a].followups = record[a].followups
          /\ \A b \in Agent : b # a => record'[b] = record[b]
      BY <1>1, <2>3, RunEnded
    <2>20. TeamIsWhole' BY <1>1, <2>2, <1>3, <2>5 DEF TeamIsWhole, A!Interrupt
    <2>21. QueuedOnce' BY <1>1, <2>2, <1>3, <2>5 DEF QueuedOnce, A!Interrupt, TeamIsWhole
    <2>22. RunsAreOfAgents' BY <1>1, <2>2, <1>3, <2>5 DEF RunsAreOfAgents, A!Interrupt, TeamIsWhole
    <2>23. RunsAreInPlace'
      BY <1>1, <2>2, <1>3, <2>5 DEF RunsAreInPlace, A!Interrupt, RunsAreOfAgents, TeamIsWhole
    <2>24. ClosedAreGone' BY <1>1, <2>2, <1>3, <2>5 DEF ClosedAreGone, A!Interrupt, TeamIsWhole
    <2>25. A!FollowupsAreTaken'
      BY <1>1, <2>2, <1>3, <2>5
      DEF A!FollowupsAreTaken, A!Interrupt, RunsAreOfAgents, RunsAreInPlace, TeamIsWhole
    <2>26. A!WorkersAreIsolated'
      BY <1>1, <2>2, <1>3, <2>5
      DEF A!WorkersAreIsolated, A!Interrupt, RunsAreOfAgents, ClosedAreGone, TeamIsWhole
    <2>27. WorkersAlone' BY <1>1, <2>2, <1>3, <2>5 DEF WorkersAlone, A!Interrupt, TeamIsWhole
    <2>28. QED BY <2>20, <2>21, <2>22, <2>23, <2>24, <2>25, <2>26, <2>27
  <1>4. CASE ~A!Waits(a)
    <2>2. pool' = pool /\ \A b : A!Waits(b)' <=> A!Waits(b) BY <1>4 DEF A!Waits, A!Interrupt
    <2>3. A!Set(a, [token |-> "cancelled"]) BY <1>4 DEF A!Interrupt
    <2>4. DOMAIN [token |-> "cancelled"] = {"token"} OBVIOUS
    <2>5. /\ DOMAIN record' = Agent /\ DOMAIN record'[a] = Fields
          /\ record'[a].token = "cancelled" /\ record'[a].state = record[a].state
          /\ record'[a].talks = record[a].talks /\ record'[a].followups = record[a].followups
          /\ \A b \in Agent : b # a => record'[b] = record[b]
      BY <1>1, <2>3, <2>4, FieldsAreSet DEF Fields
    <2>6. record'[a].followups \in Nat BY <1>1, <1>4, <2>5
    <2>20. TeamIsWhole' BY <1>1, <2>2, <1>4, <2>5, <2>6 DEF TeamIsWhole, A!Interrupt
    <2>21. QueuedOnce' BY <1>1, <2>2, <1>4, <2>5, <2>6 DEF QueuedOnce, A!Interrupt, TeamIsWhole
    <2>22. RunsAreOfAgents'
      BY <1>1, <2>2, <1>4, <2>5, <2>6 DEF RunsAreOfAgents, A!Interrupt, TeamIsWhole
    <2>23. RunsAreInPlace'
      BY <1>1, <2>2, <1>4, <2>5, <2>6 DEF RunsAreInPlace, A!Interrupt, RunsAreOfAgents, TeamIsWhole
    <2>24. ClosedAreGone'
      BY <1>1, <2>2, <1>4, <2>5, <2>6 DEF ClosedAreGone, A!Interrupt, TeamIsWhole
    <2>25. A!FollowupsAreTaken'
      BY <1>1, <2>2, <1>4, <2>5, <2>6
      DEF A!FollowupsAreTaken, A!Interrupt, RunsAreOfAgents, RunsAreInPlace, TeamIsWhole
    <2>26. A!WorkersAreIsolated'
      BY <1>1, <2>2, <1>4, <2>5, <2>6
      DEF A!WorkersAreIsolated, A!Interrupt, RunsAreOfAgents, ClosedAreGone, TeamIsWhole
    <2>27. WorkersAlone' BY <1>1, <2>2, <1>4, <2>5, <2>6 DEF WorkersAlone, A!Interrupt, TeamIsWhole
    <2>28. QED BY <2>20, <2>21, <2>22, <2>23, <2>24, <2>25, <2>26, <2>27
  <1>5. QED BY <1>3, <1>4 DEF A!Interrupt

LEMMA AgentClosed ==
    ASSUME HelpersAssumption, TeamInv, NEW a \in Agent, A!CloseAgent(a)
    PROVE  TeamInv'
  <1> USE DEF TeamInv, HelpersAssumption
  <1>1. DOMAIN record[a] = Fields /\ DOMAIN record = Agent /\ record[a].followups \in Nat
    BY DEF TeamIsWhole
  <1>2. pool' = pool /\ \A b : A!Waits(b)' <=> A!Waits(b) BY DEF A!CloseAgent, A!Waits
  <1>3. A!Set(a, [state |-> "closing"]) BY <1>1 DEF A!CloseAgent
  <1>4. DOMAIN [state |-> "closing"] = {"state"} OBVIOUS
  <1>5. /\ DOMAIN record' = Agent /\ DOMAIN record'[a] = Fields
        /\ record'[a].state = "closing" /\ record'[a].token = record[a].token
        /\ record'[a].talks = record[a].talks /\ record'[a].followups = record[a].followups
        /\ \A b \in Agent : b # a => record'[b] = record[b]
    BY <1>1, <1>3, <1>4, FieldsAreSet DEF Fields
  <1>20. TeamIsWhole' BY <1>1, <1>2, <1>5 DEF TeamIsWhole, A!CloseAgent
  <1>21. QueuedOnce' BY <1>1, <1>2, <1>5 DEF QueuedOnce, A!CloseAgent, TeamIsWhole
  <1>22. RunsAreOfAgents' BY <1>1, <1>2, <1>5 DEF RunsAreOfAgents, A!CloseAgent, TeamIsWhole
  <1>23. RunsAreInPlace'
    BY <1>1, <1>2, <1>5 DEF RunsAreInPlace, A!CloseAgent, RunsAreOfAgents, TeamIsWhole
  <1>24. ClosedAreGone' BY <1>1, <1>2, <1>5 DEF ClosedAreGone, A!CloseAgent, TeamIsWhole
  <1>25. A!FollowupsAreTaken'
    BY <1>1, <1>2, <1>5
    DEF A!FollowupsAreTaken, A!CloseAgent, RunsAreOfAgents, RunsAreInPlace, TeamIsWhole
  <1>26. A!WorkersAreIsolated'
    BY <1>1, <1>2, <1>5
    DEF A!WorkersAreIsolated, A!CloseAgent, RunsAreOfAgents, ClosedAreGone, TeamIsWhole
  <1>27. WorkersAlone' BY <1>1, <1>2, <1>5 DEF WorkersAlone, A!CloseAgent, TeamIsWhole
  <1>28. QED BY <1>20, <1>21, <1>22, <1>23, <1>24, <1>25, <1>26, <1>27

LEMMA AgentReleased ==
    ASSUME HelpersAssumption, TeamInv, NEW a \in Agent, NEW discard \in BOOLEAN, A!ReleaseAgent(a, discard)
    PROVE  TeamInv'
  <1> USE DEF TeamInv, HelpersAssumption
  <1>1. DOMAIN record[a] = Fields /\ DOMAIN record = Agent /\ record[a].followups \in Nat
    BY DEF TeamIsWhole
  <1>2. pool' = pool /\ \A b : A!Waits(b)' <=> A!Waits(b) BY DEF A!ReleaseAgent, A!Waits
  <1>3. A!Set(a, [state |-> "closed"]) BY <1>1 DEF A!ReleaseAgent
  <1>4. DOMAIN [state |-> "closed"] = {"state"} OBVIOUS
  <1>5. /\ DOMAIN record' = Agent /\ DOMAIN record'[a] = Fields
        /\ record'[a].state = "closed" /\ record'[a].token = record[a].token
        /\ record'[a].talks = record[a].talks /\ record'[a].followups = record[a].followups
        /\ \A b \in Agent : b # a => record'[b] = record[b]
    BY <1>1, <1>3, <1>4, FieldsAreSet DEF Fields
  <1>20. TeamIsWhole' BY <1>1, <1>2, <1>5 DEF TeamIsWhole, A!ReleaseAgent
  <1>21. QueuedOnce' BY <1>1, <1>2, <1>5 DEF QueuedOnce, A!ReleaseAgent, TeamIsWhole
  <1>22. RunsAreOfAgents' BY <1>1, <1>2, <1>5 DEF RunsAreOfAgents, A!ReleaseAgent, TeamIsWhole
  <1>23. RunsAreInPlace'
    BY <1>1, <1>2, <1>5 DEF RunsAreInPlace, A!ReleaseAgent, RunsAreOfAgents, TeamIsWhole
  <1>24. ClosedAreGone' BY <1>1, <1>2, <1>5 DEF ClosedAreGone, A!ReleaseAgent, TeamIsWhole
  <1>25. A!FollowupsAreTaken'
    BY <1>1, <1>2, <1>5
    DEF A!FollowupsAreTaken, A!ReleaseAgent, RunsAreOfAgents, RunsAreInPlace, TeamIsWhole
  <1>26. A!WorkersAreIsolated'
    BY <1>1, <1>2, <1>5
    DEF A!WorkersAreIsolated, A!ReleaseAgent, RunsAreOfAgents, ClosedAreGone, TeamIsWhole
  <1>27. WorkersAlone' BY <1>1, <1>2, <1>5 DEF WorkersAlone, A!ReleaseAgent, TeamIsWhole
  <1>28. QED BY <1>20, <1>21, <1>22, <1>23, <1>24, <1>25, <1>26, <1>27

LEMMA ChangesApplied ==
    ASSUME HelpersAssumption, TeamInv, NEW a \in Agent, A!ApplyChanges(a)
    PROVE  TeamInv'
  <1> USE DEF TeamInv, HelpersAssumption
  <1>2. pool' = pool /\ \A b : A!Waits(b)' <=> A!Waits(b) BY DEF A!ApplyChanges, A!Waits
  <1>20. TeamIsWhole' BY <1>2 DEF TeamIsWhole, A!ApplyChanges
  <1>21. QueuedOnce' BY <1>2 DEF QueuedOnce, A!ApplyChanges, TeamIsWhole
  <1>22. RunsAreOfAgents' BY <1>2 DEF RunsAreOfAgents, A!ApplyChanges, TeamIsWhole
  <1>23. RunsAreInPlace' BY <1>2 DEF RunsAreInPlace, A!ApplyChanges, RunsAreOfAgents, TeamIsWhole
  <1>24. ClosedAreGone' BY <1>2 DEF ClosedAreGone, A!ApplyChanges, TeamIsWhole
  <1>25. A!FollowupsAreTaken'
    BY <1>2 DEF A!FollowupsAreTaken, A!ApplyChanges, RunsAreOfAgents, RunsAreInPlace, TeamIsWhole
  <1>26. A!WorkersAreIsolated'
    BY <1>2 DEF A!WorkersAreIsolated, A!ApplyChanges, RunsAreOfAgents, ClosedAreGone, TeamIsWhole
  <1>27. WorkersAlone' BY <1>2 DEF WorkersAlone, A!ApplyChanges, TeamIsWhole
  <1>28. QED BY <1>20, <1>21, <1>22, <1>23, <1>24, <1>25, <1>26, <1>27

LEMMA RunStarted == ASSUME HelpersAssumption, TeamInv, A!RunStarts PROVE TeamInv'
  <1> USE DEF TeamInv, HelpersAssumption
  <1>1. PICK a : a = Head(pool) OBVIOUS
  <1>2. pool' \in Seq(Agent) /\ QueuedOnce' /\ a \in Agent /\ A!Waits(a) /\ ~A!Waits(a)'
           /\ \A b : A!Waits(b)' => A!Waits(b)
    BY <1>1, QueueShrinks DEF A!RunStarts, TeamIsWhole
  <1>3. record' = record /\ at' = [at EXCEPT ![a] = "start"]
           /\ UNCHANGED <<open, sandboxes, proposals, closed, retired>>
    BY <1>1 DEF A!RunStarts, A!Goes
  <1>4. record[a].state \in A!Active /\ record[a].token # "none" /\ a \in open
    BY <1>2 DEF RunsAreOfAgents
  <1>20. TeamIsWhole' BY <1>2, <1>3, <1>4 DEF TeamIsWhole, A!RunStarts
  <1>21. QueuedOnce' BY <1>2, <1>3, <1>4 DEF QueuedOnce, A!RunStarts, TeamIsWhole
  <1>22. RunsAreOfAgents' BY <1>2, <1>3, <1>4 DEF RunsAreOfAgents, A!RunStarts, TeamIsWhole
  <1>23. RunsAreInPlace'
    BY <1>2, <1>3, <1>4 DEF RunsAreInPlace, A!RunStarts, RunsAreOfAgents, TeamIsWhole
  <1>24. ClosedAreGone' BY <1>2, <1>3, <1>4 DEF ClosedAreGone, A!RunStarts, TeamIsWhole
  <1>25. A!FollowupsAreTaken'
    BY <1>2, <1>3, <1>4
    DEF A!FollowupsAreTaken, A!RunStarts, RunsAreOfAgents, RunsAreInPlace, TeamIsWhole
  <1>26. A!WorkersAreIsolated'
    BY <1>2, <1>3, <1>4
    DEF A!WorkersAreIsolated, A!RunStarts, RunsAreOfAgents, ClosedAreGone, TeamIsWhole
  <1>27. WorkersAlone' BY <1>2, <1>3, <1>4 DEF WorkersAlone, A!RunStarts, TeamIsWhole
  <1>28. QED BY <1>20, <1>21, <1>22, <1>23, <1>24, <1>25, <1>26, <1>27

LEMMA RunPrepared ==
    ASSUME HelpersAssumption, TeamInv, NEW a \in Agent, A!RunPrepares(a)
    PROVE  TeamInv'
  <1> USE DEF TeamInv, HelpersAssumption
  <1>1. DOMAIN record[a] = Fields /\ DOMAIN record = Agent /\ record[a].followups \in Nat
    BY DEF TeamIsWhole
  <1>2. pool' = pool /\ \A b : A!Waits(b)' <=> A!Waits(b) BY DEF A!RunPrepares, A!Waits
  <1>3. CASE record[a].token = "cancelled"
    <2>3. A!Ended(a, "interrupted") BY <1>3 DEF A!RunPrepares, A!Finish, A!Goes
    <2>5. /\ DOMAIN record' = Agent /\ DOMAIN record'[a] = Fields
          /\ record'[a].state \in {"interrupted", "failed"} /\ record'[a].token = "none"
          /\ record'[a].talks = record[a].talks /\ record'[a].followups = record[a].followups
          /\ \A b \in Agent : b # a => record'[b] = record[b]
      BY <1>1, <2>3, RunEnded
    <2>20. TeamIsWhole' BY <1>1, <1>2, <1>3, <2>5 DEF TeamIsWhole, A!RunPrepares, A!Finish, A!Goes
    <2>21. QueuedOnce'
      BY <1>1, <1>2, <1>3, <2>5 DEF QueuedOnce, A!RunPrepares, A!Finish, A!Goes, TeamIsWhole
    <2>22. RunsAreOfAgents'
      BY <1>1, <1>2, <1>3, <2>5 DEF RunsAreOfAgents, A!RunPrepares, A!Finish, A!Goes, TeamIsWhole
    <2>23. RunsAreInPlace'
      BY <1>1, <1>2, <1>3, <2>5
      DEF RunsAreInPlace, A!RunPrepares, A!Finish, A!Goes, RunsAreOfAgents, TeamIsWhole
    <2>24. ClosedAreGone'
      BY <1>1, <1>2, <1>3, <2>5 DEF ClosedAreGone, A!RunPrepares, A!Finish, A!Goes, TeamIsWhole
    <2>25. A!FollowupsAreTaken'
      BY <1>1, <1>2, <1>3, <2>5
      DEF A!FollowupsAreTaken, A!RunPrepares, A!Finish, A!Goes, RunsAreOfAgents, RunsAreInPlace,
          TeamIsWhole
    <2>26. A!WorkersAreIsolated'
      BY <1>1, <1>2, <1>3, <2>5
      DEF A!WorkersAreIsolated, A!RunPrepares, A!Finish, A!Goes, RunsAreOfAgents, ClosedAreGone,
          TeamIsWhole
    <2>27. WorkersAlone'
      BY <1>1, <1>2, <1>3, <2>5 DEF WorkersAlone, A!RunPrepares, A!Finish, A!Goes, TeamIsWhole
    <2>28. QED BY <2>20, <2>21, <2>22, <2>23, <2>24, <2>25, <2>26, <2>27
  <1>4. CASE record[a].token # "cancelled" /\ record[a].talks
    <2>3. record' = record BY <1>4 DEF A!RunPrepares, A!Finish, A!Goes
    <2>20. TeamIsWhole' BY <1>1, <1>2, <1>4, <2>3 DEF TeamIsWhole, A!RunPrepares, A!Finish, A!Goes
    <2>21. QueuedOnce'
      BY <1>1, <1>2, <1>4, <2>3 DEF QueuedOnce, A!RunPrepares, A!Finish, A!Goes, TeamIsWhole
    <2>22. RunsAreOfAgents'
      BY <1>1, <1>2, <1>4, <2>3 DEF RunsAreOfAgents, A!RunPrepares, A!Finish, A!Goes, TeamIsWhole
    <2>23. RunsAreInPlace'
      BY <1>1, <1>2, <1>4, <2>3
      DEF RunsAreInPlace, A!RunPrepares, A!Finish, A!Goes, RunsAreOfAgents, TeamIsWhole
    <2>24. ClosedAreGone'
      BY <1>1, <1>2, <1>4, <2>3 DEF ClosedAreGone, A!RunPrepares, A!Finish, A!Goes, TeamIsWhole
    <2>25. A!FollowupsAreTaken'
      BY <1>1, <1>2, <1>4, <2>3
      DEF A!FollowupsAreTaken, A!RunPrepares, A!Finish, A!Goes, RunsAreOfAgents, RunsAreInPlace,
          TeamIsWhole
    <2>26. A!WorkersAreIsolated'
      BY <1>1, <1>2, <1>4, <2>3
      DEF A!WorkersAreIsolated, A!RunPrepares, A!Finish, A!Goes, RunsAreOfAgents, ClosedAreGone,
          TeamIsWhole
    <2>27. WorkersAlone'
      BY <1>1, <1>2, <1>4, <2>3 DEF WorkersAlone, A!RunPrepares, A!Finish, A!Goes, TeamIsWhole
    <2>28. QED BY <2>20, <2>21, <2>22, <2>23, <2>24, <2>25, <2>26, <2>27
  <1>5. CASE record[a].token # "cancelled" /\ ~record[a].talks /\ A!Finish(a, "failed")
                /\ UNCHANGED sandboxes
    <2>3. A!Ended(a, "failed") BY <1>5 DEF A!RunPrepares, A!Finish, A!Goes
    <2>5. /\ DOMAIN record' = Agent /\ DOMAIN record'[a] = Fields
          /\ record'[a].state \in {"failed", "failed"} /\ record'[a].token = "none"
          /\ record'[a].talks = record[a].talks /\ record'[a].followups = record[a].followups
          /\ \A b \in Agent : b # a => record'[b] = record[b]
      BY <1>1, <2>3, RunEnded
    <2>20. TeamIsWhole' BY <1>1, <1>2, <1>5, <2>5 DEF TeamIsWhole, A!RunPrepares, A!Finish, A!Goes
    <2>21. QueuedOnce'
      BY <1>1, <1>2, <1>5, <2>5 DEF QueuedOnce, A!RunPrepares, A!Finish, A!Goes, TeamIsWhole
    <2>22. RunsAreOfAgents'
      BY <1>1, <1>2, <1>5, <2>5 DEF RunsAreOfAgents, A!RunPrepares, A!Finish, A!Goes, TeamIsWhole
    <2>23. RunsAreInPlace'
      BY <1>1, <1>2, <1>5, <2>5
      DEF RunsAreInPlace, A!RunPrepares, A!Finish, A!Goes, RunsAreOfAgents, TeamIsWhole
    <2>24. ClosedAreGone'
      BY <1>1, <1>2, <1>5, <2>5 DEF ClosedAreGone, A!RunPrepares, A!Finish, A!Goes, TeamIsWhole
    <2>25. A!FollowupsAreTaken'
      BY <1>1, <1>2, <1>5, <2>5
      DEF A!FollowupsAreTaken, A!RunPrepares, A!Finish, A!Goes, RunsAreOfAgents, RunsAreInPlace,
          TeamIsWhole
    <2>26. A!WorkersAreIsolated'
      BY <1>1, <1>2, <1>5, <2>5
      DEF A!WorkersAreIsolated, A!RunPrepares, A!Finish, A!Goes, RunsAreOfAgents, ClosedAreGone,
          TeamIsWhole
    <2>27. WorkersAlone'
      BY <1>1, <1>2, <1>5, <2>5 DEF WorkersAlone, A!RunPrepares, A!Finish, A!Goes, TeamIsWhole
    <2>28. QED BY <2>20, <2>21, <2>22, <2>23, <2>24, <2>25, <2>26, <2>27
  <1>6. CASE /\ record[a].token # "cancelled" /\ ~record[a].talks /\ A!Goes(a, "drain")
             /\ sandboxes' = IF a \in Worker THEN sandboxes \union {a} ELSE sandboxes
             /\ A!Set(a, [talks |-> TRUE, last |-> IF record[a].saved THEN "assistant" ELSE "user"])
    <2>3. A!Set(a, [talks |-> TRUE, last |-> IF record[a].saved THEN "assistant" ELSE "user"])
      BY <1>6
    <2>4. DOMAIN [talks |-> TRUE, last |-> IF record[a].saved THEN "assistant"
             ELSE "user"] = {"talks", "last"}
      OBVIOUS
    <2>5. /\ DOMAIN record' = Agent /\ DOMAIN record'[a] = Fields
          /\ record'[a].talks = TRUE /\ record'[a].state = record[a].state
          /\ record'[a].token = record[a].token /\ record'[a].followups = record[a].followups
          /\ \A b \in Agent : b # a => record'[b] = record[b]
      BY <1>1, <2>3, <2>4, FieldsAreSet DEF Fields
    <2>6. record'[a].followups \in Nat BY <1>1, <1>6, <2>5
    <2>20. TeamIsWhole'
      BY <1>1, <1>2, <1>6, <2>5, <2>6 DEF TeamIsWhole, A!RunPrepares, A!Finish, A!Goes
    <2>21. QueuedOnce'
      BY <1>1, <1>2, <1>6, <2>5, <2>6 DEF QueuedOnce, A!RunPrepares, A!Finish, A!Goes, TeamIsWhole
    <2>22. RunsAreOfAgents'
      BY <1>1, <1>2, <1>6, <2>5, <2>6
      DEF RunsAreOfAgents, A!RunPrepares, A!Finish, A!Goes, TeamIsWhole
    <2>23. RunsAreInPlace'
      BY <1>1, <1>2, <1>6, <2>5, <2>6
      DEF RunsAreInPlace, A!RunPrepares, A!Finish, A!Goes, RunsAreOfAgents, TeamIsWhole
    <2>24. ClosedAreGone'
      BY <1>1, <1>2, <1>6, <2>5, <2>6
      DEF ClosedAreGone, A!RunPrepares, A!Finish, A!Goes, TeamIsWhole
    <2>25. A!FollowupsAreTaken'
      BY <1>1, <1>2, <1>6, <2>5, <2>6
      DEF A!FollowupsAreTaken, A!RunPrepares, A!Finish, A!Goes, RunsAreOfAgents, RunsAreInPlace,
          TeamIsWhole
    <2>26. A!WorkersAreIsolated'
      BY <1>1, <1>2, <1>6, <2>5, <2>6
      DEF A!WorkersAreIsolated, A!RunPrepares, A!Finish, A!Goes, RunsAreOfAgents, ClosedAreGone,
          TeamIsWhole
    <2>27. WorkersAlone'
      BY <1>1, <1>2, <1>6, <2>5, <2>6 DEF WorkersAlone, A!RunPrepares, A!Finish, A!Goes, TeamIsWhole
    <2>28. QED BY <2>20, <2>21, <2>22, <2>23, <2>24, <2>25, <2>26, <2>27
  <1>7. QED BY <1>3, <1>4, <1>5, <1>6 DEF A!RunPrepares

LEMMA RunDrained ==
    ASSUME HelpersAssumption, TeamInv, NEW a \in Agent, A!RunDrains(a)
    PROVE  TeamInv'
  <1> USE DEF TeamInv, HelpersAssumption
  <1>1. DOMAIN record[a] = Fields /\ DOMAIN record = Agent /\ record[a].followups \in Nat
    BY DEF TeamIsWhole
  <1>2. pool' = pool /\ \A b : A!Waits(b)' <=> A!Waits(b) BY DEF A!RunDrains, A!Waits
  <1>3. CASE record[a].saved
    <2>3. A!Set(a, [followups |-> 0, saved |-> FALSE,
             last |-> IF record[a].followups > 0 THEN "user" ELSE record[a].last])
      BY <1>3 DEF A!RunDrains, A!Goes
    <2>4. DOMAIN [followups |-> 0, saved |-> FALSE,
             last |-> IF record[a].followups > 0 THEN "user"
                ELSE record[a].last] = {"followups", "saved", "last"}
      OBVIOUS
    <2>5. /\ DOMAIN record' = Agent /\ DOMAIN record'[a] = Fields
          /\ record'[a].followups = 0 /\ record'[a].state = record[a].state
          /\ record'[a].token = record[a].token /\ record'[a].talks = record[a].talks
          /\ \A b \in Agent : b # a => record'[b] = record[b]
      BY <1>1, <2>3, <2>4, FieldsAreSet DEF Fields
    <2>6. record'[a].followups \in Nat BY <1>1, <1>3, <2>5
    <2>20. TeamIsWhole' BY <1>1, <1>2, <1>3, <2>5, <2>6 DEF TeamIsWhole, A!RunDrains, A!Goes
    <2>21. QueuedOnce'
      BY <1>1, <1>2, <1>3, <2>5, <2>6 DEF QueuedOnce, A!RunDrains, A!Goes, TeamIsWhole
    <2>22. RunsAreOfAgents'
      BY <1>1, <1>2, <1>3, <2>5, <2>6 DEF RunsAreOfAgents, A!RunDrains, A!Goes, TeamIsWhole
    <2>23. RunsAreInPlace'
      BY <1>1, <1>2, <1>3, <2>5, <2>6
      DEF RunsAreInPlace, A!RunDrains, A!Goes, RunsAreOfAgents, TeamIsWhole
    <2>24. ClosedAreGone'
      BY <1>1, <1>2, <1>3, <2>5, <2>6 DEF ClosedAreGone, A!RunDrains, A!Goes, TeamIsWhole
    <2>25. A!FollowupsAreTaken'
      BY <1>1, <1>2, <1>3, <2>5, <2>6
      DEF A!FollowupsAreTaken, A!RunDrains, A!Goes, RunsAreOfAgents, RunsAreInPlace, TeamIsWhole
    <2>26. A!WorkersAreIsolated'
      BY <1>1, <1>2, <1>3, <2>5, <2>6
      DEF A!WorkersAreIsolated, A!RunDrains, A!Goes, RunsAreOfAgents, ClosedAreGone, TeamIsWhole
    <2>27. WorkersAlone'
      BY <1>1, <1>2, <1>3, <2>5, <2>6 DEF WorkersAlone, A!RunDrains, A!Goes, TeamIsWhole
    <2>28. QED BY <2>20, <2>21, <2>22, <2>23, <2>24, <2>25, <2>26, <2>27
  <1>4. CASE ~record[a].saved
    <2>3. A!Set(a, [followups |-> 0, inbox |-> record[a].inbox + record[a].followups])
      BY <1>4 DEF A!RunDrains, A!Goes
    <2>4. DOMAIN [followups |-> 0,
             inbox |-> record[a].inbox + record[a].followups] = {"followups", "inbox"}
      OBVIOUS
    <2>5. /\ DOMAIN record' = Agent /\ DOMAIN record'[a] = Fields
          /\ record'[a].followups = 0 /\ record'[a].state = record[a].state
          /\ record'[a].token = record[a].token /\ record'[a].talks = record[a].talks
          /\ \A b \in Agent : b # a => record'[b] = record[b]
      BY <1>1, <2>3, <2>4, FieldsAreSet DEF Fields
    <2>6. record'[a].followups \in Nat BY <1>1, <1>4, <2>5
    <2>20. TeamIsWhole' BY <1>1, <1>2, <1>4, <2>5, <2>6 DEF TeamIsWhole, A!RunDrains, A!Goes
    <2>21. QueuedOnce'
      BY <1>1, <1>2, <1>4, <2>5, <2>6 DEF QueuedOnce, A!RunDrains, A!Goes, TeamIsWhole
    <2>22. RunsAreOfAgents'
      BY <1>1, <1>2, <1>4, <2>5, <2>6 DEF RunsAreOfAgents, A!RunDrains, A!Goes, TeamIsWhole
    <2>23. RunsAreInPlace'
      BY <1>1, <1>2, <1>4, <2>5, <2>6
      DEF RunsAreInPlace, A!RunDrains, A!Goes, RunsAreOfAgents, TeamIsWhole
    <2>24. ClosedAreGone'
      BY <1>1, <1>2, <1>4, <2>5, <2>6 DEF ClosedAreGone, A!RunDrains, A!Goes, TeamIsWhole
    <2>25. A!FollowupsAreTaken'
      BY <1>1, <1>2, <1>4, <2>5, <2>6
      DEF A!FollowupsAreTaken, A!RunDrains, A!Goes, RunsAreOfAgents, RunsAreInPlace, TeamIsWhole
    <2>26. A!WorkersAreIsolated'
      BY <1>1, <1>2, <1>4, <2>5, <2>6
      DEF A!WorkersAreIsolated, A!RunDrains, A!Goes, RunsAreOfAgents, ClosedAreGone, TeamIsWhole
    <2>27. WorkersAlone'
      BY <1>1, <1>2, <1>4, <2>5, <2>6 DEF WorkersAlone, A!RunDrains, A!Goes, TeamIsWhole
    <2>28. QED BY <2>20, <2>21, <2>22, <2>23, <2>24, <2>25, <2>26, <2>27
  <1>5. QED BY <1>3, <1>4 DEF A!RunDrains

LEMMA RunLooped == ASSUME HelpersAssumption, TeamInv, NEW a \in Agent, A!RunLoops(a) PROVE TeamInv'
  <1> USE DEF TeamInv, HelpersAssumption
  <1>1. DOMAIN record[a] = Fields /\ DOMAIN record = Agent /\ record[a].followups \in Nat
    BY DEF TeamIsWhole
  <1>2. pool' = pool /\ \A b : A!Waits(b)' <=> A!Waits(b) BY DEF A!RunLoops, A!Waits
  <1>3. CASE closed
    <2>3. record' = record BY <1>3 DEF A!RunLoops, A!Goes, A!Finish
    <2>20. TeamIsWhole' BY <1>1, <1>2, <1>3, <2>3 DEF TeamIsWhole, A!RunLoops, A!Goes, A!Finish
    <2>21. QueuedOnce'
      BY <1>1, <1>2, <1>3, <2>3 DEF QueuedOnce, A!RunLoops, A!Goes, A!Finish, TeamIsWhole
    <2>22. RunsAreOfAgents'
      BY <1>1, <1>2, <1>3, <2>3 DEF RunsAreOfAgents, A!RunLoops, A!Goes, A!Finish, TeamIsWhole
    <2>23. RunsAreInPlace'
      BY <1>1, <1>2, <1>3, <2>3
      DEF RunsAreInPlace, A!RunLoops, A!Goes, A!Finish, RunsAreOfAgents, TeamIsWhole
    <2>24. ClosedAreGone'
      BY <1>1, <1>2, <1>3, <2>3 DEF ClosedAreGone, A!RunLoops, A!Goes, A!Finish, TeamIsWhole
    <2>25. A!FollowupsAreTaken'
      BY <1>1, <1>2, <1>3, <2>3
      DEF A!FollowupsAreTaken, A!RunLoops, A!Goes, A!Finish, RunsAreOfAgents, RunsAreInPlace,
          TeamIsWhole
    <2>26. A!WorkersAreIsolated'
      BY <1>1, <1>2, <1>3, <2>3
      DEF A!WorkersAreIsolated, A!RunLoops, A!Goes, A!Finish, RunsAreOfAgents, ClosedAreGone,
          TeamIsWhole
    <2>27. WorkersAlone'
      BY <1>1, <1>2, <1>3, <2>3 DEF WorkersAlone, A!RunLoops, A!Goes, A!Finish, TeamIsWhole
    <2>28. QED BY <2>20, <2>21, <2>22, <2>23, <2>24, <2>25, <2>26, <2>27
  <1>4. CASE ~closed /\ record[a].token = "cancelled"
    <2>3. A!Ended(a, "interrupted") BY <1>4 DEF A!RunLoops, A!Goes, A!Finish
    <2>5. /\ DOMAIN record' = Agent /\ DOMAIN record'[a] = Fields
          /\ record'[a].state \in {"interrupted", "failed"} /\ record'[a].token = "none"
          /\ record'[a].talks = record[a].talks /\ record'[a].followups = record[a].followups
          /\ \A b \in Agent : b # a => record'[b] = record[b]
      BY <1>1, <2>3, RunEnded
    <2>20. TeamIsWhole' BY <1>1, <1>2, <1>4, <2>5 DEF TeamIsWhole, A!RunLoops, A!Goes, A!Finish
    <2>21. QueuedOnce'
      BY <1>1, <1>2, <1>4, <2>5 DEF QueuedOnce, A!RunLoops, A!Goes, A!Finish, TeamIsWhole
    <2>22. RunsAreOfAgents'
      BY <1>1, <1>2, <1>4, <2>5 DEF RunsAreOfAgents, A!RunLoops, A!Goes, A!Finish, TeamIsWhole
    <2>23. RunsAreInPlace'
      BY <1>1, <1>2, <1>4, <2>5
      DEF RunsAreInPlace, A!RunLoops, A!Goes, A!Finish, RunsAreOfAgents, TeamIsWhole
    <2>24. ClosedAreGone'
      BY <1>1, <1>2, <1>4, <2>5 DEF ClosedAreGone, A!RunLoops, A!Goes, A!Finish, TeamIsWhole
    <2>25. A!FollowupsAreTaken'
      BY <1>1, <1>2, <1>4, <2>5
      DEF A!FollowupsAreTaken, A!RunLoops, A!Goes, A!Finish, RunsAreOfAgents, RunsAreInPlace,
          TeamIsWhole
    <2>26. A!WorkersAreIsolated'
      BY <1>1, <1>2, <1>4, <2>5
      DEF A!WorkersAreIsolated, A!RunLoops, A!Goes, A!Finish, RunsAreOfAgents, ClosedAreGone,
          TeamIsWhole
    <2>27. WorkersAlone'
      BY <1>1, <1>2, <1>4, <2>5 DEF WorkersAlone, A!RunLoops, A!Goes, A!Finish, TeamIsWhole
    <2>28. QED BY <2>20, <2>21, <2>22, <2>23, <2>24, <2>25, <2>26, <2>27
  <1>5. CASE ~closed /\ record[a].token # "cancelled"
    <2>3. A!Set(a, [state |-> "running"]) BY <1>5 DEF A!RunLoops, A!Goes, A!Finish
    <2>4. DOMAIN [state |-> "running"] = {"state"} OBVIOUS
    <2>5. /\ DOMAIN record' = Agent /\ DOMAIN record'[a] = Fields
          /\ record'[a].state = "running" /\ record'[a].token = record[a].token
          /\ record'[a].talks = record[a].talks /\ record'[a].followups = record[a].followups
          /\ \A b \in Agent : b # a => record'[b] = record[b]
      BY <1>1, <2>3, <2>4, FieldsAreSet DEF Fields
    <2>6. record'[a].followups \in Nat BY <1>1, <1>5, <2>5
    <2>20. TeamIsWhole'
      BY <1>1, <1>2, <1>5, <2>5, <2>6 DEF TeamIsWhole, A!RunLoops, A!Goes, A!Finish
    <2>21. QueuedOnce'
      BY <1>1, <1>2, <1>5, <2>5, <2>6 DEF QueuedOnce, A!RunLoops, A!Goes, A!Finish, TeamIsWhole
    <2>22. RunsAreOfAgents'
      BY <1>1, <1>2, <1>5, <2>5, <2>6 DEF RunsAreOfAgents, A!RunLoops, A!Goes, A!Finish, TeamIsWhole
    <2>23. RunsAreInPlace'
      BY <1>1, <1>2, <1>5, <2>5, <2>6
      DEF RunsAreInPlace, A!RunLoops, A!Goes, A!Finish, RunsAreOfAgents, TeamIsWhole
    <2>24. ClosedAreGone'
      BY <1>1, <1>2, <1>5, <2>5, <2>6 DEF ClosedAreGone, A!RunLoops, A!Goes, A!Finish, TeamIsWhole
    <2>25. A!FollowupsAreTaken'
      BY <1>1, <1>2, <1>5, <2>5, <2>6
      DEF A!FollowupsAreTaken, A!RunLoops, A!Goes, A!Finish, RunsAreOfAgents, RunsAreInPlace,
          TeamIsWhole
    <2>26. A!WorkersAreIsolated'
      BY <1>1, <1>2, <1>5, <2>5, <2>6
      DEF A!WorkersAreIsolated, A!RunLoops, A!Goes, A!Finish, RunsAreOfAgents, ClosedAreGone,
          TeamIsWhole
    <2>27. WorkersAlone'
      BY <1>1, <1>2, <1>5, <2>5, <2>6 DEF WorkersAlone, A!RunLoops, A!Goes, A!Finish, TeamIsWhole
    <2>28. QED BY <2>20, <2>21, <2>22, <2>23, <2>24, <2>25, <2>26, <2>27
  <1>6. QED BY <1>3, <1>4, <1>5 DEF A!RunLoops

LEMMA TurnRan == ASSUME HelpersAssumption, TeamInv, NEW a \in Agent, A!RunTurn(a) PROVE TeamInv'
  <1> USE DEF TeamInv, HelpersAssumption
  <1>1. DOMAIN record[a] = Fields /\ DOMAIN record = Agent /\ record[a].followups \in Nat
    BY DEF TeamIsWhole
  <1>2. pool' = pool /\ \A b : A!Waits(b)' <=> A!Waits(b) BY DEF A!RunTurn, A!Waits
  <1>3. CASE record[a].last # "user" /\ record[a].followups > 0 /\ A!Set(a, A!Taken(a))
                /\ UNCHANGED at
    <2>3. A!Set(a, [followups |-> record[a].followups - 1, last |-> "user"])
      BY <1>3 DEF A!RunTurn, A!Goes, A!Finish, A!Taken
    <2>4. DOMAIN [followups |-> record[a].followups - 1, last |-> "user"] = {"followups", "last"}
      OBVIOUS
    <2>5. /\ DOMAIN record' = Agent /\ DOMAIN record'[a] = Fields
          /\ record'[a].followups = record[a].followups - 1 /\ record'[a].state = record[a].state
          /\ record'[a].token = record[a].token /\ record'[a].talks = record[a].talks
          /\ \A b \in Agent : b # a => record'[b] = record[b]
      BY <1>1, <2>3, <2>4, FieldsAreSet DEF Fields
    <2>6. record'[a].followups \in Nat BY <1>1, <1>3, <2>5
    <2>20. TeamIsWhole'
      BY <1>1, <1>2, <1>3, <2>5, <2>6 DEF TeamIsWhole, A!RunTurn, A!Goes, A!Finish, A!Taken
    <2>21. QueuedOnce'
      BY <1>1, <1>2, <1>3, <2>5, <2>6
      DEF QueuedOnce, A!RunTurn, A!Goes, A!Finish, A!Taken, TeamIsWhole
    <2>22. RunsAreOfAgents'
      BY <1>1, <1>2, <1>3, <2>5, <2>6
      DEF RunsAreOfAgents, A!RunTurn, A!Goes, A!Finish, A!Taken, TeamIsWhole
    <2>23. RunsAreInPlace'
      BY <1>1, <1>2, <1>3, <2>5, <2>6
      DEF RunsAreInPlace, A!RunTurn, A!Goes, A!Finish, A!Taken, RunsAreOfAgents, TeamIsWhole
    <2>24. ClosedAreGone'
      BY <1>1, <1>2, <1>3, <2>5, <2>6
      DEF ClosedAreGone, A!RunTurn, A!Goes, A!Finish, A!Taken, TeamIsWhole
    <2>25. A!FollowupsAreTaken'
      BY <1>1, <1>2, <1>3, <2>5, <2>6
      DEF A!FollowupsAreTaken, A!RunTurn, A!Goes, A!Finish, A!Taken, RunsAreOfAgents,
          RunsAreInPlace, TeamIsWhole
    <2>26. A!WorkersAreIsolated'
      BY <1>1, <1>2, <1>3, <2>5, <2>6
      DEF A!WorkersAreIsolated, A!RunTurn, A!Goes, A!Finish, A!Taken, RunsAreOfAgents,
          ClosedAreGone, TeamIsWhole
    <2>27. WorkersAlone'
      BY <1>1, <1>2, <1>3, <2>5, <2>6
      DEF WorkersAlone, A!RunTurn, A!Goes, A!Finish, A!Taken, TeamIsWhole
    <2>28. QED BY <2>20, <2>21, <2>22, <2>23, <2>24, <2>25, <2>26, <2>27
  <1>4. CASE A!Goes(a, "look") /\ A!Set(a, [inbox |-> 0, last |-> "assistant"])
    <2>3. A!Set(a, [inbox |-> 0, last |-> "assistant"]) BY <1>4
    <2>4. DOMAIN [inbox |-> 0, last |-> "assistant"] = {"inbox", "last"} OBVIOUS
    <2>5. /\ DOMAIN record' = Agent /\ DOMAIN record'[a] = Fields
          /\ record'[a].state = record[a].state /\ record'[a].token = record[a].token
          /\ record'[a].talks = record[a].talks /\ record'[a].followups = record[a].followups
          /\ \A b \in Agent : b # a => record'[b] = record[b]
      BY <1>1, <2>3, <2>4, FieldsAreSet DEF Fields
    <2>6. record'[a].followups \in Nat BY <1>1, <1>4, <2>5
    <2>20. TeamIsWhole'
      BY <1>1, <1>2, <1>4, <2>5, <2>6 DEF TeamIsWhole, A!RunTurn, A!Goes, A!Finish, A!Taken
    <2>21. QueuedOnce'
      BY <1>1, <1>2, <1>4, <2>5, <2>6
      DEF QueuedOnce, A!RunTurn, A!Goes, A!Finish, A!Taken, TeamIsWhole
    <2>22. RunsAreOfAgents'
      BY <1>1, <1>2, <1>4, <2>5, <2>6
      DEF RunsAreOfAgents, A!RunTurn, A!Goes, A!Finish, A!Taken, TeamIsWhole
    <2>23. RunsAreInPlace'
      BY <1>1, <1>2, <1>4, <2>5, <2>6
      DEF RunsAreInPlace, A!RunTurn, A!Goes, A!Finish, A!Taken, RunsAreOfAgents, TeamIsWhole
    <2>24. ClosedAreGone'
      BY <1>1, <1>2, <1>4, <2>5, <2>6
      DEF ClosedAreGone, A!RunTurn, A!Goes, A!Finish, A!Taken, TeamIsWhole
    <2>25. A!FollowupsAreTaken'
      BY <1>1, <1>2, <1>4, <2>5, <2>6
      DEF A!FollowupsAreTaken, A!RunTurn, A!Goes, A!Finish, A!Taken, RunsAreOfAgents,
          RunsAreInPlace, TeamIsWhole
    <2>26. A!WorkersAreIsolated'
      BY <1>1, <1>2, <1>4, <2>5, <2>6
      DEF A!WorkersAreIsolated, A!RunTurn, A!Goes, A!Finish, A!Taken, RunsAreOfAgents,
          ClosedAreGone, TeamIsWhole
    <2>27. WorkersAlone'
      BY <1>1, <1>2, <1>4, <2>5, <2>6
      DEF WorkersAlone, A!RunTurn, A!Goes, A!Finish, A!Taken, TeamIsWhole
    <2>28. QED BY <2>20, <2>21, <2>22, <2>23, <2>24, <2>25, <2>26, <2>27
  <1>5. CASE A!Finish(a, "failed")
    <2>3. A!Ended(a, "failed") BY <1>5 DEF A!RunTurn, A!Goes, A!Finish, A!Taken
    <2>5. /\ DOMAIN record' = Agent /\ DOMAIN record'[a] = Fields
          /\ record'[a].state \in {"failed", "failed"} /\ record'[a].token = "none"
          /\ record'[a].talks = record[a].talks /\ record'[a].followups = record[a].followups
          /\ \A b \in Agent : b # a => record'[b] = record[b]
      BY <1>1, <2>3, RunEnded
    <2>20. TeamIsWhole'
      BY <1>1, <1>2, <1>5, <2>5 DEF TeamIsWhole, A!RunTurn, A!Goes, A!Finish, A!Taken
    <2>21. QueuedOnce'
      BY <1>1, <1>2, <1>5, <2>5 DEF QueuedOnce, A!RunTurn, A!Goes, A!Finish, A!Taken, TeamIsWhole
    <2>22. RunsAreOfAgents'
      BY <1>1, <1>2, <1>5, <2>5
      DEF RunsAreOfAgents, A!RunTurn, A!Goes, A!Finish, A!Taken, TeamIsWhole
    <2>23. RunsAreInPlace'
      BY <1>1, <1>2, <1>5, <2>5
      DEF RunsAreInPlace, A!RunTurn, A!Goes, A!Finish, A!Taken, RunsAreOfAgents, TeamIsWhole
    <2>24. ClosedAreGone'
      BY <1>1, <1>2, <1>5, <2>5 DEF ClosedAreGone, A!RunTurn, A!Goes, A!Finish, A!Taken, TeamIsWhole
    <2>25. A!FollowupsAreTaken'
      BY <1>1, <1>2, <1>5, <2>5
      DEF A!FollowupsAreTaken, A!RunTurn, A!Goes, A!Finish, A!Taken, RunsAreOfAgents,
          RunsAreInPlace, TeamIsWhole
    <2>26. A!WorkersAreIsolated'
      BY <1>1, <1>2, <1>5, <2>5
      DEF A!WorkersAreIsolated, A!RunTurn, A!Goes, A!Finish, A!Taken, RunsAreOfAgents,
          ClosedAreGone, TeamIsWhole
    <2>27. WorkersAlone'
      BY <1>1, <1>2, <1>5, <2>5 DEF WorkersAlone, A!RunTurn, A!Goes, A!Finish, A!Taken, TeamIsWhole
    <2>28. QED BY <2>20, <2>21, <2>22, <2>23, <2>24, <2>25, <2>26, <2>27
  <1>6. CASE record[a].token = "cancelled" /\ A!Finish(a, "interrupted")
    <2>3. A!Ended(a, "interrupted") BY <1>6 DEF A!RunTurn, A!Goes, A!Finish, A!Taken
    <2>5. /\ DOMAIN record' = Agent /\ DOMAIN record'[a] = Fields
          /\ record'[a].state \in {"interrupted", "failed"} /\ record'[a].token = "none"
          /\ record'[a].talks = record[a].talks /\ record'[a].followups = record[a].followups
          /\ \A b \in Agent : b # a => record'[b] = record[b]
      BY <1>1, <2>3, RunEnded
    <2>20. TeamIsWhole'
      BY <1>1, <1>2, <1>6, <2>5 DEF TeamIsWhole, A!RunTurn, A!Goes, A!Finish, A!Taken
    <2>21. QueuedOnce'
      BY <1>1, <1>2, <1>6, <2>5 DEF QueuedOnce, A!RunTurn, A!Goes, A!Finish, A!Taken, TeamIsWhole
    <2>22. RunsAreOfAgents'
      BY <1>1, <1>2, <1>6, <2>5
      DEF RunsAreOfAgents, A!RunTurn, A!Goes, A!Finish, A!Taken, TeamIsWhole
    <2>23. RunsAreInPlace'
      BY <1>1, <1>2, <1>6, <2>5
      DEF RunsAreInPlace, A!RunTurn, A!Goes, A!Finish, A!Taken, RunsAreOfAgents, TeamIsWhole
    <2>24. ClosedAreGone'
      BY <1>1, <1>2, <1>6, <2>5 DEF ClosedAreGone, A!RunTurn, A!Goes, A!Finish, A!Taken, TeamIsWhole
    <2>25. A!FollowupsAreTaken'
      BY <1>1, <1>2, <1>6, <2>5
      DEF A!FollowupsAreTaken, A!RunTurn, A!Goes, A!Finish, A!Taken, RunsAreOfAgents,
          RunsAreInPlace, TeamIsWhole
    <2>26. A!WorkersAreIsolated'
      BY <1>1, <1>2, <1>6, <2>5
      DEF A!WorkersAreIsolated, A!RunTurn, A!Goes, A!Finish, A!Taken, RunsAreOfAgents,
          ClosedAreGone, TeamIsWhole
    <2>27. WorkersAlone'
      BY <1>1, <1>2, <1>6, <2>5 DEF WorkersAlone, A!RunTurn, A!Goes, A!Finish, A!Taken, TeamIsWhole
    <2>28. QED BY <2>20, <2>21, <2>22, <2>23, <2>24, <2>25, <2>26, <2>27
  <1>7. QED BY <1>3, <1>4, <1>5, <1>6 DEF A!RunTurn

LEMMA RunLooked == ASSUME HelpersAssumption, TeamInv, NEW a \in Agent, A!RunLooks(a) PROVE TeamInv'
  <1> USE DEF TeamInv, HelpersAssumption
  <1>1. DOMAIN record[a] = Fields /\ DOMAIN record = Agent /\ record[a].followups \in Nat
    BY DEF TeamIsWhole
  <1>2. pool' = pool /\ \A b : A!Waits(b)' <=> A!Waits(b) BY DEF A!RunLooks, A!Waits
  <1>3. CASE TRUE
    <2>3. record' = record BY <1>3 DEF A!RunLooks, A!Goes
    <2>20. TeamIsWhole' BY <1>1, <1>2, <1>3, <2>3 DEF TeamIsWhole, A!RunLooks, A!Goes
    <2>21. QueuedOnce' BY <1>1, <1>2, <1>3, <2>3 DEF QueuedOnce, A!RunLooks, A!Goes, TeamIsWhole
    <2>22. RunsAreOfAgents'
      BY <1>1, <1>2, <1>3, <2>3 DEF RunsAreOfAgents, A!RunLooks, A!Goes, TeamIsWhole
    <2>23. RunsAreInPlace'
      BY <1>1, <1>2, <1>3, <2>3 DEF RunsAreInPlace, A!RunLooks, A!Goes, RunsAreOfAgents, TeamIsWhole
    <2>24. ClosedAreGone'
      BY <1>1, <1>2, <1>3, <2>3 DEF ClosedAreGone, A!RunLooks, A!Goes, TeamIsWhole
    <2>25. A!FollowupsAreTaken'
      BY <1>1, <1>2, <1>3, <2>3
      DEF A!FollowupsAreTaken, A!RunLooks, A!Goes, RunsAreOfAgents, RunsAreInPlace, TeamIsWhole
    <2>26. A!WorkersAreIsolated'
      BY <1>1, <1>2, <1>3, <2>3
      DEF A!WorkersAreIsolated, A!RunLooks, A!Goes, RunsAreOfAgents, ClosedAreGone, TeamIsWhole
    <2>27. WorkersAlone' BY <1>1, <1>2, <1>3, <2>3 DEF WorkersAlone, A!RunLooks, A!Goes, TeamIsWhole
    <2>28. QED BY <2>20, <2>21, <2>22, <2>23, <2>24, <2>25, <2>26, <2>27
  <1>4. QED BY <1>3 DEF A!RunLooks

LEMMA RunSettled ==
    ASSUME HelpersAssumption, TeamInv, NEW a \in Agent, A!RunSettles(a)
    PROVE  TeamInv'
  <1> USE DEF TeamInv, HelpersAssumption
  <1>1. DOMAIN record[a] = Fields /\ DOMAIN record = Agent /\ record[a].followups \in Nat
    BY DEF TeamIsWhole
  <1>2. pool' = pool /\ \A b : A!Waits(b)' <=> A!Waits(b) BY DEF A!RunSettles, A!Waits
  <1>3. CASE a \in sandboxes /\ proposals' = proposals \union {a} /\ A!Goes(a, "take")
                /\ UNCHANGED record
    <2>3. record' = record BY <1>3 DEF A!RunSettles, A!Goes, A!Finish
    <2>20. TeamIsWhole' BY <1>1, <1>2, <1>3, <2>3 DEF TeamIsWhole, A!RunSettles, A!Goes, A!Finish
    <2>21. QueuedOnce'
      BY <1>1, <1>2, <1>3, <2>3 DEF QueuedOnce, A!RunSettles, A!Goes, A!Finish, TeamIsWhole
    <2>22. RunsAreOfAgents'
      BY <1>1, <1>2, <1>3, <2>3 DEF RunsAreOfAgents, A!RunSettles, A!Goes, A!Finish, TeamIsWhole
    <2>23. RunsAreInPlace'
      BY <1>1, <1>2, <1>3, <2>3
      DEF RunsAreInPlace, A!RunSettles, A!Goes, A!Finish, RunsAreOfAgents, TeamIsWhole
    <2>24. ClosedAreGone'
      BY <1>1, <1>2, <1>3, <2>3 DEF ClosedAreGone, A!RunSettles, A!Goes, A!Finish, TeamIsWhole
    <2>25. A!FollowupsAreTaken'
      BY <1>1, <1>2, <1>3, <2>3
      DEF A!FollowupsAreTaken, A!RunSettles, A!Goes, A!Finish, RunsAreOfAgents, RunsAreInPlace,
          TeamIsWhole
    <2>26. A!WorkersAreIsolated'
      BY <1>1, <1>2, <1>3, <2>3
      DEF A!WorkersAreIsolated, A!RunSettles, A!Goes, A!Finish, RunsAreOfAgents, ClosedAreGone,
          TeamIsWhole
    <2>27. WorkersAlone'
      BY <1>1, <1>2, <1>3, <2>3 DEF WorkersAlone, A!RunSettles, A!Goes, A!Finish, TeamIsWhole
    <2>28. QED BY <2>20, <2>21, <2>22, <2>23, <2>24, <2>25, <2>26, <2>27
  <1>4. CASE A!Finish(a, "failed") /\ UNCHANGED proposals
    <2>3. A!Ended(a, "failed") BY <1>4 DEF A!RunSettles, A!Goes, A!Finish
    <2>5. /\ DOMAIN record' = Agent /\ DOMAIN record'[a] = Fields
          /\ record'[a].state \in {"failed", "failed"} /\ record'[a].token = "none"
          /\ record'[a].talks = record[a].talks /\ record'[a].followups = record[a].followups
          /\ \A b \in Agent : b # a => record'[b] = record[b]
      BY <1>1, <2>3, RunEnded
    <2>20. TeamIsWhole' BY <1>1, <1>2, <1>4, <2>5 DEF TeamIsWhole, A!RunSettles, A!Goes, A!Finish
    <2>21. QueuedOnce'
      BY <1>1, <1>2, <1>4, <2>5 DEF QueuedOnce, A!RunSettles, A!Goes, A!Finish, TeamIsWhole
    <2>22. RunsAreOfAgents'
      BY <1>1, <1>2, <1>4, <2>5 DEF RunsAreOfAgents, A!RunSettles, A!Goes, A!Finish, TeamIsWhole
    <2>23. RunsAreInPlace'
      BY <1>1, <1>2, <1>4, <2>5
      DEF RunsAreInPlace, A!RunSettles, A!Goes, A!Finish, RunsAreOfAgents, TeamIsWhole
    <2>24. ClosedAreGone'
      BY <1>1, <1>2, <1>4, <2>5 DEF ClosedAreGone, A!RunSettles, A!Goes, A!Finish, TeamIsWhole
    <2>25. A!FollowupsAreTaken'
      BY <1>1, <1>2, <1>4, <2>5
      DEF A!FollowupsAreTaken, A!RunSettles, A!Goes, A!Finish, RunsAreOfAgents, RunsAreInPlace,
          TeamIsWhole
    <2>26. A!WorkersAreIsolated'
      BY <1>1, <1>2, <1>4, <2>5
      DEF A!WorkersAreIsolated, A!RunSettles, A!Goes, A!Finish, RunsAreOfAgents, ClosedAreGone,
          TeamIsWhole
    <2>27. WorkersAlone'
      BY <1>1, <1>2, <1>4, <2>5 DEF WorkersAlone, A!RunSettles, A!Goes, A!Finish, TeamIsWhole
    <2>28. QED BY <2>20, <2>21, <2>22, <2>23, <2>24, <2>25, <2>26, <2>27
  <1>5. QED BY <1>3, <1>4 DEF A!RunSettles

LEMMA RunTook == ASSUME HelpersAssumption, TeamInv, NEW a \in Agent, A!RunTakes(a) PROVE TeamInv'
  <1> USE DEF TeamInv, HelpersAssumption
  <1>1. DOMAIN record[a] = Fields /\ DOMAIN record = Agent /\ record[a].followups \in Nat
    BY DEF TeamIsWhole
  <1>2. pool' = pool /\ \A b : A!Waits(b)' <=> A!Waits(b) BY DEF A!RunTakes, A!Waits
  <1>3. CASE record[a].followups > 0
    <2>3. A!Set(a, [followups |-> record[a].followups - 1, last |-> "user"])
      BY <1>3 DEF A!RunTakes, A!Goes, A!Taken
    <2>4. DOMAIN [followups |-> record[a].followups - 1, last |-> "user"] = {"followups", "last"}
      OBVIOUS
    <2>5. /\ DOMAIN record' = Agent /\ DOMAIN record'[a] = Fields
          /\ record'[a].followups = record[a].followups - 1 /\ record'[a].state = record[a].state
          /\ record'[a].token = record[a].token /\ record'[a].talks = record[a].talks
          /\ \A b \in Agent : b # a => record'[b] = record[b]
      BY <1>1, <2>3, <2>4, FieldsAreSet DEF Fields
    <2>6. record'[a].followups \in Nat BY <1>1, <1>3, <2>5
    <2>20. TeamIsWhole' BY <1>1, <1>2, <1>3, <2>5, <2>6 DEF TeamIsWhole, A!RunTakes, A!Goes, A!Taken
    <2>21. QueuedOnce'
      BY <1>1, <1>2, <1>3, <2>5, <2>6 DEF QueuedOnce, A!RunTakes, A!Goes, A!Taken, TeamIsWhole
    <2>22. RunsAreOfAgents'
      BY <1>1, <1>2, <1>3, <2>5, <2>6 DEF RunsAreOfAgents, A!RunTakes, A!Goes, A!Taken, TeamIsWhole
    <2>23. RunsAreInPlace'
      BY <1>1, <1>2, <1>3, <2>5, <2>6
      DEF RunsAreInPlace, A!RunTakes, A!Goes, A!Taken, RunsAreOfAgents, TeamIsWhole
    <2>24. ClosedAreGone'
      BY <1>1, <1>2, <1>3, <2>5, <2>6 DEF ClosedAreGone, A!RunTakes, A!Goes, A!Taken, TeamIsWhole
    <2>25. A!FollowupsAreTaken'
      BY <1>1, <1>2, <1>3, <2>5, <2>6
      DEF A!FollowupsAreTaken, A!RunTakes, A!Goes, A!Taken, RunsAreOfAgents, RunsAreInPlace,
          TeamIsWhole
    <2>26. A!WorkersAreIsolated'
      BY <1>1, <1>2, <1>3, <2>5, <2>6
      DEF A!WorkersAreIsolated, A!RunTakes, A!Goes, A!Taken, RunsAreOfAgents, ClosedAreGone,
          TeamIsWhole
    <2>27. WorkersAlone'
      BY <1>1, <1>2, <1>3, <2>5, <2>6 DEF WorkersAlone, A!RunTakes, A!Goes, A!Taken, TeamIsWhole
    <2>28. QED BY <2>20, <2>21, <2>22, <2>23, <2>24, <2>25, <2>26, <2>27
  <1>4. CASE ~(record[a].followups > 0)
    <2>3. record' = record BY <1>4 DEF A!RunTakes, A!Goes, A!Taken
    <2>20. TeamIsWhole' BY <1>1, <1>2, <1>4, <2>3 DEF TeamIsWhole, A!RunTakes, A!Goes, A!Taken
    <2>21. QueuedOnce'
      BY <1>1, <1>2, <1>4, <2>3 DEF QueuedOnce, A!RunTakes, A!Goes, A!Taken, TeamIsWhole
    <2>22. RunsAreOfAgents'
      BY <1>1, <1>2, <1>4, <2>3 DEF RunsAreOfAgents, A!RunTakes, A!Goes, A!Taken, TeamIsWhole
    <2>23. RunsAreInPlace'
      BY <1>1, <1>2, <1>4, <2>3
      DEF RunsAreInPlace, A!RunTakes, A!Goes, A!Taken, RunsAreOfAgents, TeamIsWhole
    <2>24. ClosedAreGone'
      BY <1>1, <1>2, <1>4, <2>3 DEF ClosedAreGone, A!RunTakes, A!Goes, A!Taken, TeamIsWhole
    <2>25. A!FollowupsAreTaken'
      BY <1>1, <1>2, <1>4, <2>3
      DEF A!FollowupsAreTaken, A!RunTakes, A!Goes, A!Taken, RunsAreOfAgents, RunsAreInPlace,
          TeamIsWhole
    <2>26. A!WorkersAreIsolated'
      BY <1>1, <1>2, <1>4, <2>3
      DEF A!WorkersAreIsolated, A!RunTakes, A!Goes, A!Taken, RunsAreOfAgents, ClosedAreGone,
          TeamIsWhole
    <2>27. WorkersAlone'
      BY <1>1, <1>2, <1>4, <2>3 DEF WorkersAlone, A!RunTakes, A!Goes, A!Taken, TeamIsWhole
    <2>28. QED BY <2>20, <2>21, <2>22, <2>23, <2>24, <2>25, <2>26, <2>27
  <1>5. QED BY <1>3, <1>4 DEF A!RunTakes

LEMMA RunDone == ASSUME HelpersAssumption, TeamInv, NEW a \in Agent, A!RunEnds(a) PROVE TeamInv'
  <1> USE DEF TeamInv, HelpersAssumption
  <1>1. DOMAIN record[a] = Fields /\ DOMAIN record = Agent /\ record[a].followups \in Nat
    BY DEF TeamIsWhole
  <1>2. pool' = pool /\ \A b : A!Waits(b)' <=> A!Waits(b) BY DEF A!RunEnds, A!Waits
  <1>3. CASE TRUE
    <2>3. A!Ended(a, "completed") BY <1>3 DEF A!RunEnds, A!Goes, A!Finish
    <2>5. /\ DOMAIN record' = Agent /\ DOMAIN record'[a] = Fields
          /\ record'[a].state \in {"completed", "failed"} /\ record'[a].token = "none"
          /\ record'[a].talks = record[a].talks /\ record'[a].followups = record[a].followups
          /\ \A b \in Agent : b # a => record'[b] = record[b]
      BY <1>1, <2>3, RunEnded
    <2>20. TeamIsWhole' BY <1>1, <1>2, <1>3, <2>5 DEF TeamIsWhole, A!RunEnds, A!Goes, A!Finish
    <2>21. QueuedOnce'
      BY <1>1, <1>2, <1>3, <2>5 DEF QueuedOnce, A!RunEnds, A!Goes, A!Finish, TeamIsWhole
    <2>22. RunsAreOfAgents'
      BY <1>1, <1>2, <1>3, <2>5 DEF RunsAreOfAgents, A!RunEnds, A!Goes, A!Finish, TeamIsWhole
    <2>23. RunsAreInPlace'
      BY <1>1, <1>2, <1>3, <2>5
      DEF RunsAreInPlace, A!RunEnds, A!Goes, A!Finish, RunsAreOfAgents, TeamIsWhole
    <2>24. ClosedAreGone'
      BY <1>1, <1>2, <1>3, <2>5 DEF ClosedAreGone, A!RunEnds, A!Goes, A!Finish, TeamIsWhole
    <2>25. A!FollowupsAreTaken'
      BY <1>1, <1>2, <1>3, <2>5
      DEF A!FollowupsAreTaken, A!RunEnds, A!Goes, A!Finish, RunsAreOfAgents, RunsAreInPlace,
          TeamIsWhole
    <2>26. A!WorkersAreIsolated'
      BY <1>1, <1>2, <1>3, <2>5
      DEF A!WorkersAreIsolated, A!RunEnds, A!Goes, A!Finish, RunsAreOfAgents, ClosedAreGone,
          TeamIsWhole
    <2>27. WorkersAlone'
      BY <1>1, <1>2, <1>3, <2>5 DEF WorkersAlone, A!RunEnds, A!Goes, A!Finish, TeamIsWhole
    <2>28. QED BY <2>20, <2>21, <2>22, <2>23, <2>24, <2>25, <2>26, <2>27
  <1>4. QED BY <1>3 DEF A!RunEnds

LEMMA TeamClosed == ASSUME HelpersAssumption, TeamInv, A!Close PROVE TeamInv'
  <1> USE DEF TeamInv, HelpersAssumption
  <1>1. pool' \in Seq(Agent) /\ QueuedOnce' /\ \A b : ~A!Waits(b)'
    BY DEF A!Close, QueuedOnce, A!Waits
  <1>2. /\ DOMAIN record' = Agent
        /\ \A a \in Agent : /\ DOMAIN record'[a] = Fields
                            /\ record'[a].token \in {record[a].token, "cancelled"}
                            /\ record'[a].state = record[a].state
                            /\ record'[a].talks = record[a].talks
                            /\ record'[a].followups = record[a].followups
    BY DEF A!Close, TeamIsWhole, Fields
  <1>20. TeamIsWhole' BY <1>1, <1>2 DEF TeamIsWhole, A!Close
  <1>21. QueuedOnce' BY <1>1, <1>2 DEF QueuedOnce, A!Close, TeamIsWhole
  <1>22. RunsAreOfAgents' BY <1>1, <1>2 DEF RunsAreOfAgents, A!Close, TeamIsWhole
  <1>23. RunsAreInPlace' BY <1>1, <1>2 DEF RunsAreInPlace, A!Close, RunsAreOfAgents, TeamIsWhole
  <1>24. ClosedAreGone' BY <1>1, <1>2 DEF ClosedAreGone, A!Close, TeamIsWhole
  <1>25. A!FollowupsAreTaken'
    BY <1>1, <1>2 DEF A!FollowupsAreTaken, A!Close, RunsAreOfAgents, RunsAreInPlace, TeamIsWhole
  <1>26. A!WorkersAreIsolated'
    BY <1>1, <1>2 DEF A!WorkersAreIsolated, A!Close, RunsAreOfAgents, ClosedAreGone, TeamIsWhole
  <1>27. WorkersAlone' BY <1>1, <1>2 DEF WorkersAlone, A!Close, TeamIsWhole
  <1>28. QED BY <1>20, <1>21, <1>22, <1>23, <1>24, <1>25, <1>26, <1>27

LEMMA TeamRetired == ASSUME HelpersAssumption, TeamInv, A!Retire PROVE TeamInv'
  <1> USE DEF TeamInv, HelpersAssumption
  <1>2. pool' = pool /\ \A b : A!Waits(b)' <=> A!Waits(b) BY DEF A!Retire, A!Waits
  <1>20. TeamIsWhole' BY <1>2 DEF TeamIsWhole, A!Retire
  <1>21. QueuedOnce' BY <1>2 DEF QueuedOnce, A!Retire, TeamIsWhole
  <1>22. RunsAreOfAgents' BY <1>2 DEF RunsAreOfAgents, A!Retire, TeamIsWhole
  <1>23. RunsAreInPlace' BY <1>2 DEF RunsAreInPlace, A!Retire, RunsAreOfAgents, TeamIsWhole
  <1>24. ClosedAreGone' BY <1>2 DEF ClosedAreGone, A!Retire, TeamIsWhole
  <1>25. A!FollowupsAreTaken'
    BY <1>2 DEF A!FollowupsAreTaken, A!Retire, RunsAreOfAgents, RunsAreInPlace, TeamIsWhole
  <1>26. A!WorkersAreIsolated'
    BY <1>2 DEF A!WorkersAreIsolated, A!Retire, RunsAreOfAgents, ClosedAreGone, TeamIsWhole
  <1>27. WorkersAlone' BY <1>2 DEF WorkersAlone, A!Retire, TeamIsWhole
  <1>28. QED BY <1>20, <1>21, <1>22, <1>23, <1>24, <1>25, <1>26, <1>27

LEMMA TeamSteps == ASSUME HelpersAssumption, TeamInv, A!Next PROVE TeamInv'
  <1>1. ASSUME NEW a \in Agent,
               A!Spawn(a) \/ A!Send(a) \/ A!Followup(a) \/ A!Interrupt(a) \/ A!CloseAgent(a)
                  \/ A!ApplyChanges(a)
        PROVE TeamInv'
    BY <1>1, Spawned, Sent, FollowedUp, Interrupted, AgentClosed, ChangesApplied
  <1>2. ASSUME NEW a \in Agent, NEW discard \in BOOLEAN, A!ReleaseAgent(a, discard) PROVE TeamInv'
    BY <1>2, AgentReleased
  <1>3. ASSUME NEW a \in Agent, A!RunSteps(a) PROVE TeamInv'
    BY <1>3, RunPrepared, RunDrained, RunLooped, TurnRan, RunLooked, RunSettled, RunTook, RunDone
    DEF A!RunSteps
  <1>4. A!RunStarts \/ A!Close \/ A!Retire => TeamInv' BY RunStarted, TeamClosed, TeamRetired
  <1>5. QED BY <1>1, <1>2, <1>3, <1>4 DEF A!Next

LEMMA TeamIsSafe ==
    ASSUME HelpersAssumption, TeamInv
    PROVE  A!FollowupsAreTaken /\ A!RunsAreKnown /\ A!WorkersAreIsolated /\ A!OneOwner
  <1>1. A!FollowupsAreTaken /\ A!WorkersAreIsolated BY DEF TeamInv
  <1>2. A!RunsAreKnown BY DEF TeamInv, A!RunsAreKnown, RunsAreOfAgents, QueuedOnce
  <1>3. A!OneOwner
    <2>1. IsFiniteSet(open \intersect Worker)
      BY FS_Subset DEF HelpersAssumption, TeamInv, TeamIsWhole
    <2>2. CASE open \intersect Worker = {} BY <2>2, FS_EmptySet, TeamCounts DEF A!OneOwner
    <2>3. CASE open \intersect Worker # {}
      <3>1. PICK a : a \in open \intersect Worker BY <2>3
      <3>2. open \intersect Worker = {a} BY <3>1 DEF TeamInv, WorkersAlone
      <3>3. QED BY <3>2, FS_Singleton, TeamCounts DEF A!OneOwner
    <2>4. QED BY <2>2, <2>3
  <1>4. QED BY <1>1, <1>2, <1>3

-----------------------------------------------------------------------------
(* Shell jobs (ShellJobs), for any set of jobs.                            *)

\* The maps of the manager have an entry for every job.
JobsAreWhole ==
    /\ DOMAIN starting = Job /\ DOMAIN status = Job /\ DOMAIN alive = Job /\ DOMAIN piped = Job
    /\ DOMAIN born = Job /\ DOMAIN tracked = Job /\ DOMAIN monitor = Job
    /\ \A j \in Job : piped[j] \subseteq alive[j] /\ alive[j] \subseteq born[j]
       /\ tracked[j] \subseteq born[j]

\* Before its process a job has none, and after it neither; it holds its lease in between.
JobsBegin ==
    \A j \in Job :
        /\ starting[j] \in {"none", "lease"} => status[j] = "none" /\ j \notin lease
        /\ starting[j] \in {"launch", "store"} => status[j] = "none" /\ j \in lease
        /\ starting[j] \in {"none", "lease", "launch"} => born[j] = {}
        /\ starting[j] # "over" => monitor[j] = "none" /\ tracked[j] = {}

\* The monitor of a job, and what has ended once it is past a place.
JobsAreWatched ==
    \A j \in Job :
        /\ status[j] \in J!Running =>
              starting[j] = "over" /\ monitor[j] \in {"root", "tree", "readers", "failed"}
                 /\ j \in lease
        /\ status[j] \in {"exited", "stopped"} =>
              starting[j] = "over" /\ monitor[j] = "over" /\ j \notin lease /\ piped[j] = {}
        /\ status[j] = "failed" => born[j] = {} /\ j \notin lease
        /\ starting[j] = "over" /\ status[j] = "none" => born[j] = {} /\ j \notin lease
        /\ monitor[j] # "none" => status[j] \in J!Running \union {"exited", "stopped"}
        /\ monitor[j] \in {"tree", "readers", "over"} => "root" \notin alive[j]
        /\ monitor[j] \in {"readers", "over"} => tracked[j] \intersect alive[j] = {}
        /\ starting[j] \in {"none", "lease", "launch", "store", "over"}
        /\ status[j] \in J!Final \union J!Running \union {"none"}

\* close() goes on to the jobs when nothing starts any more, which stays so.
ClosingIsKept ==
    /\ closer = "stops" \/ jobsClosed => closing /\ \A j \in Job : starting[j] \in {"none", "over"}
    /\ closer = "starts" => closing
    /\ jobsClosed => \A j \in Job : status[j] \notin J!Running
    /\ lease \subseteq Job

ShellInv == JobsAreWhole /\ JobsBegin /\ JobsAreWatched /\ ClosingIsKept

USE DEF J!Final, J!Running

LEMMA ShellInit == ASSUME J!Init PROVE ShellInv
  BY DEF J!Init, ShellInv, JobsAreWhole, JobsBegin, JobsAreWatched, ClosingIsKept

\* What the manager sees is what was born, and nothing runs that it did not see before and that

\* descends from nothing it sees.
LEMMA SeenIsBorn ==
    ASSUME NEW j \in Job, JobsAreWhole
    PROVE  tracked[j] \subseteq J!Seen(j) /\ J!Seen(j) \subseteq born[j]
  BY DEF JobsAreWhole, J!Seen, J!Below

LEMMA SeenIsOver ==
    ASSUME NEW j \in Job, "root" \notin alive[j], tracked[j] \intersect alive[j] = {}
    PROVE  J!Seen(j) = tracked[j]
  BY DEF J!Seen, J!Below

LEMMA JobStarts == ASSUME ShellInv, NEW j \in Job, J!Start(j) PROVE ShellInv'
  <1> USE DEF ShellInv
  <1>20. JobsAreWhole' BY DEF JobsAreWhole, J!Start, J!others, JobsBegin, JobsAreWatched
  <1>21. JobsBegin' BY DEF JobsBegin, J!Start, J!others, JobsAreWhole, JobsAreWatched
  <1>22. JobsAreWatched' BY DEF JobsAreWatched, J!Start, J!others, JobsAreWhole, JobsBegin
  <1>23. ClosingIsKept'
    BY DEF ClosingIsKept, J!Start, J!others, JobsAreWhole, JobsAreWatched, JobsBegin
  <1>24. QED BY <1>20, <1>21, <1>22, <1>23

LEMMA LeaseIsTaken == ASSUME ShellInv, NEW j \in Job, J!TakeLease(j) PROVE ShellInv'
  <1> USE DEF ShellInv
  <1>20. JobsAreWhole'
    BY DEF JobsAreWhole, J!TakeLease, J!Leave, J!others, JobsBegin, JobsAreWatched
  <1>21. JobsBegin' BY DEF JobsBegin, J!TakeLease, J!Leave, J!others, JobsAreWhole, JobsAreWatched
  <1>22. JobsAreWatched'
    BY DEF JobsAreWatched, J!TakeLease, J!Leave, J!others, JobsAreWhole, JobsBegin
  <1>23. ClosingIsKept'
    BY DEF ClosingIsKept, J!TakeLease, J!Leave, J!others, JobsAreWhole, JobsAreWatched, JobsBegin
  <1>24. QED BY <1>20, <1>21, <1>22, <1>23

LEMMA LaunchFailed == ASSUME ShellInv, NEW j \in Job, J!LaunchFails(j) PROVE ShellInv'
  <1> USE DEF ShellInv
  <1>20. JobsAreWhole'
    BY DEF JobsAreWhole, J!LaunchFails, J!Leave, J!others, JobsBegin, JobsAreWatched
  <1>21. JobsBegin' BY DEF JobsBegin, J!LaunchFails, J!Leave, J!others, JobsAreWhole, JobsAreWatched
  <1>22. JobsAreWatched'
    BY DEF JobsAreWatched, J!LaunchFails, J!Leave, J!others, JobsAreWhole, JobsBegin
  <1>23. ClosingIsKept'
    BY DEF ClosingIsKept, J!LaunchFails, J!Leave, J!others, JobsAreWhole, JobsAreWatched, JobsBegin
  <1>24. QED BY <1>20, <1>21, <1>22, <1>23

LEMMA JobLaunched == ASSUME ShellInv, NEW j \in Job, J!Launch(j) PROVE ShellInv'
  <1> USE DEF ShellInv
  <1>20. JobsAreWhole' BY DEF JobsAreWhole, J!Launch, JobsBegin, JobsAreWatched
  <1>21. JobsBegin' BY DEF JobsBegin, J!Launch, JobsAreWhole, JobsAreWatched
  <1>22. JobsAreWatched' BY DEF JobsAreWatched, J!Launch, JobsAreWhole, JobsBegin
  <1>23. ClosingIsKept' BY DEF ClosingIsKept, J!Launch, JobsAreWhole, JobsAreWatched, JobsBegin
  <1>24. QED BY <1>20, <1>21, <1>22, <1>23

LEMMA JobStored == ASSUME ShellInv, NEW j \in Job, J!Store(j) PROVE ShellInv'
  <1> USE DEF ShellInv
  <1>1. tracked[j] \subseteq J!Seen(j) /\ J!Seen(j) \subseteq born[j] BY SeenIsBorn
  <1>2. "root" \notin alive[j] /\ tracked[j] \intersect alive[j] = {} => J!Seen(j) = tracked[j]
    BY SeenIsOver
  <1>20. JobsAreWhole' BY <1>1, <1>2 DEF JobsAreWhole, J!Store, J!Leave, JobsBegin, JobsAreWatched
  <1>21. JobsBegin' BY <1>1, <1>2 DEF JobsBegin, J!Store, J!Leave, JobsAreWhole, JobsAreWatched
  <1>22. JobsAreWatched' BY <1>1, <1>2 DEF JobsAreWatched, J!Store, J!Leave, JobsAreWhole, JobsBegin
  <1>23. ClosingIsKept'
    BY <1>1, <1>2 DEF ClosingIsKept, J!Store, J!Leave, JobsAreWhole, JobsAreWatched, JobsBegin
  <1>24. QED BY <1>20, <1>21, <1>22, <1>23

LEMMA ProcessForks == ASSUME ShellInv, NEW j \in Job, J!Fork(j) PROVE ShellInv'
  <1> USE DEF ShellInv
  <1>20. JobsAreWhole' BY DEF JobsAreWhole, J!Fork, J!ParentOf, JobsBegin, JobsAreWatched
  <1>21. JobsBegin' BY DEF JobsBegin, J!Fork, J!ParentOf, JobsAreWhole, JobsAreWatched
  <1>22. JobsAreWatched' BY DEF JobsAreWatched, J!Fork, J!ParentOf, JobsAreWhole, JobsBegin
  <1>23. ClosingIsKept'
    BY DEF ClosingIsKept, J!Fork, J!ParentOf, JobsAreWhole, JobsAreWatched, JobsBegin
  <1>24. QED BY <1>20, <1>21, <1>22, <1>23

LEMMA ProcessExits == ASSUME ShellInv, NEW j \in Job, J!Exit(j) PROVE ShellInv'
  <1> USE DEF ShellInv
  <1>20. JobsAreWhole' BY DEF JobsAreWhole, J!Exit, JobsBegin, JobsAreWatched
  <1>21. JobsBegin' BY DEF JobsBegin, J!Exit, JobsAreWhole, JobsAreWatched
  <1>22. JobsAreWatched' BY DEF JobsAreWatched, J!Exit, JobsAreWhole, JobsBegin
  <1>23. ClosingIsKept' BY DEF ClosingIsKept, J!Exit, JobsAreWhole, JobsAreWatched, JobsBegin
  <1>24. QED BY <1>20, <1>21, <1>22, <1>23

LEMMA RootPolled == ASSUME ShellInv, NEW j \in Job, J!Poll(j) PROVE ShellInv'
  <1> USE DEF ShellInv
  <1>1. tracked[j] \subseteq J!Seen(j) /\ J!Seen(j) \subseteq born[j] BY SeenIsBorn
  <1>2. "root" \notin alive[j] /\ tracked[j] \intersect alive[j] = {} => J!Seen(j) = tracked[j]
    BY SeenIsOver
  <1>20. JobsAreWhole' BY <1>1, <1>2 DEF JobsAreWhole, J!Poll, JobsBegin, JobsAreWatched
  <1>21. JobsBegin' BY <1>1, <1>2 DEF JobsBegin, J!Poll, JobsAreWhole, JobsAreWatched
  <1>22. JobsAreWatched' BY <1>1, <1>2 DEF JobsAreWatched, J!Poll, JobsAreWhole, JobsBegin
  <1>23. ClosingIsKept'
    BY <1>1, <1>2 DEF ClosingIsKept, J!Poll, JobsAreWhole, JobsAreWatched, JobsBegin
  <1>24. QED BY <1>20, <1>21, <1>22, <1>23

LEMMA TreeWaited == ASSUME ShellInv, NEW j \in Job, J!WaitForTree(j) PROVE ShellInv'
  <1> USE DEF ShellInv
  <1>1. tracked[j] \subseteq J!Seen(j) /\ J!Seen(j) \subseteq born[j] BY SeenIsBorn
  <1>2. "root" \notin alive[j] /\ tracked[j] \intersect alive[j] = {} => J!Seen(j) = tracked[j]
    BY SeenIsOver
  <1>20. JobsAreWhole' BY <1>1, <1>2 DEF JobsAreWhole, J!WaitForTree, JobsBegin, JobsAreWatched
  <1>21. JobsBegin' BY <1>1, <1>2 DEF JobsBegin, J!WaitForTree, JobsAreWhole, JobsAreWatched
  <1>22. JobsAreWatched' BY <1>1, <1>2 DEF JobsAreWatched, J!WaitForTree, JobsAreWhole, JobsBegin
  <1>23. ClosingIsKept'
    BY <1>1, <1>2 DEF ClosingIsKept, J!WaitForTree, JobsAreWhole, JobsAreWatched, JobsBegin
  <1>24. QED BY <1>20, <1>21, <1>22, <1>23

LEMMA ReadersJoined == ASSUME ShellInv, NEW j \in Job, J!Join(j) PROVE ShellInv'
  <1> USE DEF ShellInv
  <1>20. JobsAreWhole' BY DEF JobsAreWhole, J!Join, J!Mark, JobsBegin, JobsAreWatched
  <1>21. JobsBegin' BY DEF JobsBegin, J!Join, J!Mark, JobsAreWhole, JobsAreWatched
  <1>22. JobsAreWatched' BY DEF JobsAreWatched, J!Join, J!Mark, JobsAreWhole, JobsBegin
  <1>23. ClosingIsKept'
    BY DEF ClosingIsKept, J!Join, J!Mark, JobsAreWhole, JobsAreWatched, JobsBegin
  <1>24. QED BY <1>20, <1>21, <1>22, <1>23

LEMMA MonitorFailed == ASSUME ShellInv, NEW j \in Job, J!MonitorFails(j) PROVE ShellInv'
  <1> USE DEF ShellInv
  <1>20. JobsAreWhole' BY DEF JobsAreWhole, J!MonitorFails, JobsBegin, JobsAreWatched
  <1>21. JobsBegin' BY DEF JobsBegin, J!MonitorFails, JobsAreWhole, JobsAreWatched
  <1>22. JobsAreWatched' BY DEF JobsAreWatched, J!MonitorFails, JobsAreWhole, JobsBegin
  <1>23. ClosingIsKept'
    BY DEF ClosingIsKept, J!MonitorFails, JobsAreWhole, JobsAreWatched, JobsBegin
  <1>24. QED BY <1>20, <1>21, <1>22, <1>23

LEMMA JobStops ==
    ASSUME ShellInv, NEW j \in Job, J!Stop(j), UNCHANGED <<closing, closer, jobsClosed>>
    PROVE  ShellInv'
  <1> USE DEF ShellInv
  <1>1. tracked[j] \subseteq J!Seen(j) /\ J!Seen(j) \subseteq born[j] BY SeenIsBorn
  <1>2. "root" \notin alive[j] /\ tracked[j] \intersect alive[j] = {} => J!Seen(j) = tracked[j]
    BY SeenIsOver
  <1>20. JobsAreWhole' BY <1>1, <1>2 DEF JobsAreWhole, J!Stop, JobsBegin, JobsAreWatched
  <1>21. JobsBegin' BY <1>1, <1>2 DEF JobsBegin, J!Stop, JobsAreWhole, JobsAreWatched
  <1>22. JobsAreWatched' BY <1>1, <1>2 DEF JobsAreWatched, J!Stop, JobsAreWhole, JobsBegin
  <1>23. ClosingIsKept'
    BY <1>1, <1>2 DEF ClosingIsKept, J!Stop, JobsAreWhole, JobsAreWatched, JobsBegin
  <1>24. QED BY <1>20, <1>21, <1>22, <1>23

LEMMA CloseCalled == ASSUME ShellInv, J!Close PROVE ShellInv'
  <1> USE DEF ShellInv
  <1>20. JobsAreWhole' BY DEF JobsAreWhole, J!Close, JobsBegin, JobsAreWatched
  <1>21. JobsBegin' BY DEF JobsBegin, J!Close, JobsAreWhole, JobsAreWatched
  <1>22. JobsAreWatched' BY DEF JobsAreWatched, J!Close, JobsAreWhole, JobsBegin
  <1>23. ClosingIsKept' BY DEF ClosingIsKept, J!Close, JobsAreWhole, JobsAreWatched, JobsBegin
  <1>24. QED BY <1>20, <1>21, <1>22, <1>23

LEMMA CloseWaited == ASSUME ShellInv, J!CloseWaits PROVE ShellInv'
  <1> USE DEF ShellInv
  <1>20. JobsAreWhole' BY DEF JobsAreWhole, J!CloseWaits, JobsBegin, JobsAreWatched
  <1>21. JobsBegin' BY DEF JobsBegin, J!CloseWaits, JobsAreWhole, JobsAreWatched
  <1>22. JobsAreWatched' BY DEF JobsAreWatched, J!CloseWaits, JobsAreWhole, JobsBegin
  <1>23. ClosingIsKept' BY DEF ClosingIsKept, J!CloseWaits, JobsAreWhole, JobsAreWatched, JobsBegin
  <1>24. QED BY <1>20, <1>21, <1>22, <1>23

LEMMA CloseEnded == ASSUME ShellInv, J!CloseEnds PROVE ShellInv'
  <1> USE DEF ShellInv
  <1>20. JobsAreWhole' BY DEF JobsAreWhole, J!CloseEnds, JobsBegin, JobsAreWatched
  <1>21. JobsBegin' BY DEF JobsBegin, J!CloseEnds, JobsAreWhole, JobsAreWatched
  <1>22. JobsAreWatched' BY DEF JobsAreWatched, J!CloseEnds, JobsAreWhole, JobsBegin
  <1>23. ClosingIsKept' BY DEF ClosingIsKept, J!CloseEnds, JobsAreWhole, JobsAreWatched, JobsBegin
  <1>24. QED BY <1>20, <1>21, <1>22, <1>23

LEMMA JobLeft ==
    ASSUME ShellInv, NEW j \in Job, J!CloseStops(j) PROVE ShellInv'
  <1>1. CASE J!Stop(j) BY <1>1, JobStops DEF J!CloseStops
  <1>2. CASE UNCHANGED <<starting, status, lease, alive, piped, born, tracked, monitor>>
    BY <1>2 DEF J!CloseStops, ShellInv, JobsAreWhole, JobsBegin, JobsAreWatched, ClosingIsKept
  <1>3. QED BY <1>1, <1>2 DEF J!CloseStops

LEMMA ShellSteps == ASSUME ShellInv, J!Next PROVE ShellInv'
  <1>1. ASSUME NEW j \in Job,
               J!Start(j) \/ J!StartSteps(j) \/ J!Fork(j) \/ J!Exit(j) \/ J!MonitorSteps(j)
                  \/ J!MonitorFails(j)
        PROVE ShellInv'
    BY <1>1, JobStarts, LeaseIsTaken, LaunchFailed, JobLaunched, JobStored, ProcessForks,
       ProcessExits, RootPolled,
       TreeWaited, ReadersJoined, MonitorFailed DEF J!StartSteps, J!MonitorSteps
  <1>2. ASSUME NEW j \in Job, J!StopByTool(j) \/ J!CloseStops(j) PROVE ShellInv'
    BY <1>2, JobStops, JobLeft DEF J!StopByTool
  <1>3. J!Close \/ J!CloseWaits \/ J!CloseEnds => ShellInv' BY CloseCalled, CloseWaited, CloseEnded
  <1>4. QED BY <1>1, <1>2, <1>3 DEF J!Next

LEMMA ShellIsSafe ==
    ASSUME ShellInv
    PROVE  J!LeaseCoversProcesses /\ J!NoStrayLease /\ J!ClosedIsEmpty
  <1> USE DEF ShellInv, JobsAreWhole, JobsBegin, JobsAreWatched, ClosingIsKept
  <1>1. J!LeaseCoversProcesses BY DEF J!LeaseCoversProcesses
  <1>2. J!NoStrayLease BY DEF J!NoStrayLease
  <1>3. J!ClosedIsEmpty BY DEF J!ClosedIsEmpty
  <1>4. QED BY <1>1, <1>2, <1>3

-----------------------------------------------------------------------------
(* Servers of tools (McpConnections), for any number of connects.          *)

\* Workers are numbered in the order they were started in.
ServersAreWhole ==
    /\ DOMAIN doing = M!Thread /\ started \in Nat /\ lock \in M!Thread \union {"none"}
    /\ conn \in 0 .. started /\ probe \in 0 .. started /\ old \in 0 .. started
    /\ \A one \in tasks : one = <<one[1], one[2], one[3]>> /\ one[1] \in M!Thread
       /\ one[2] \in 1 .. started

\* A worker is connecting, connected, held by a probe or being closed, and only one of them.
WorkersAreApart ==
    /\ \A one, other \in tasks : one[2] = other[2] => one = other
    /\ \A one \in tasks : one[2] \notin {conn, probe, old}
    /\ conn # 0 => conn \notin {probe, old}
    /\ probe # 0 => probe # old

\* A connect that was not given up has its caller waiting for it, and for no other.
CallersWait ==
    /\ \A one \in tasks : ~one[3] => doing[one[1]] \in {"connecting", "probing"}
    /\ \A one \in tasks : one[1] = "user" => ~one[3]
    /\ \A one, other \in tasks : one[1] = other[1] /\ ~one[3] /\ ~other[3] => one = other

ServersInv ==
    ServersAreWhole /\ WorkersAreApart /\ CallersWait /\ M!ListedIsConnected
       /\ M!LockIsHeldToConnect

USE DEF M!Thread, M!catalog, M!session

LEMMA ServersInit == ASSUME M!Init PROVE ServersInv
  <1>1. ServersAreWhole
    <2>1. DOMAIN doing = M!Thread /\ started = 0 /\ conn = 0 /\ probe = 0 /\ old = 0 BY DEF M!Init
    <2>2. lock = "none" /\ tasks = {} BY DEF M!Init
    <2>3. QED BY <2>1, <2>2 DEF ServersAreWhole
  <1>2. WorkersAreApart /\ CallersWait BY DEF M!Init, WorkersAreApart, CallersWait
  <1>3. M!ListedIsConnected BY DEF M!Init, M!ListedIsConnected
  <1>4. M!LockIsHeldToConnect BY DEF M!Init, M!LockIsHeldToConnect
  <1>5. QED BY <1>1, <1>2, <1>3, <1>4 DEF ServersInv

LEMMA ConnectBegins == ASSUME ServersInv, NEW t \in M!Thread, M!Connect(t) PROVE ServersInv'
  <1> USE DEF ServersInv, ServersAreWhole
  <1>1. PICK new : new = <<t, started + 1, FALSE>> OBVIOUS
  <1>2. /\ new = <<new[1], new[2], new[3]>> /\ new[1] = t /\ new[2] = started + 1 /\ ~new[3]
        /\ started' = started + 1 /\ tasks' = tasks \union {new}
        /\ \A one \in tasks : one[2] \in 1 .. started /\ one[2] # started + 1
        /\ conn # started + 1 /\ probe # started + 1 /\ old # started + 1
    BY <1>1 DEF M!Connect
  <1>20. ServersAreWhole'
    <2>1. /\ DOMAIN doing' = M!Thread /\ started' \in Nat /\ lock' \in M!Thread \union {"none"}
          /\ conn' \in 0 .. started' /\ probe' \in 0 .. started' /\ old' \in 0 .. started'
      BY <1>2 DEF M!Connect, M!Goes
    <2>2. ASSUME NEW one \in tasks
          PROVE one = <<one[1], one[2], one[3]>> /\ one[1] \in M!Thread /\ one[2] \in 1 .. started'
      BY <1>2
    <2>3. new[1] \in M!Thread /\ new[2] \in 1 .. started' BY <1>2
    <2>4. QED BY <1>2, <2>1, <2>2, <2>3
  <1>21. WorkersAreApart' BY <1>2 DEF WorkersAreApart, M!Connect, M!Goes, CallersWait
  <1>22. CallersWait' BY <1>2 DEF CallersWait, M!Connect, M!Goes
  <1>23. M!ListedIsConnected'
    BY <1>2 DEF M!ListedIsConnected, M!Connect, M!Goes, WorkersAreApart, CallersWait
  <1>24. M!LockIsHeldToConnect' BY <1>2 DEF M!LockIsHeldToConnect, M!Connect, M!Goes, CallersWait
  <1>25. QED BY <1>20, <1>21, <1>22, <1>23, <1>24

LEMMA ConnectEnds == ASSUME ServersInv, NEW one, M!Connected(one) PROVE ServersInv'
  <1> USE DEF ServersInv, ServersAreWhole
  <1>1. /\ one \in tasks /\ one[1] \in M!Thread /\ one[2] \in 1 .. started
        /\ one = <<one[1], one[2], one[3]>>
    BY DEF M!Connected, M!ConnectFails
  <1>20. ServersAreWhole' BY <1>1 DEF ServersAreWhole, M!Connected, M!Published, M!Goes
  <1>21. WorkersAreApart' BY <1>1 DEF WorkersAreApart, M!Connected, M!Published, M!Goes, CallersWait
  <1>22. CallersWait' BY <1>1 DEF CallersWait, M!Connected, M!Published, M!Goes
  <1>23. M!ListedIsConnected'
    BY <1>1 DEF M!ListedIsConnected, M!Connected, M!Published, M!Goes, WorkersAreApart, CallersWait
  <1>24. M!LockIsHeldToConnect'
    BY <1>1 DEF M!LockIsHeldToConnect, M!Connected, M!Published, M!Goes, CallersWait
  <1>25. QED BY <1>20, <1>21, <1>22, <1>23, <1>24

LEMMA ConnectFailed == ASSUME ServersInv, NEW one, M!ConnectFails(one) PROVE ServersInv'
  <1> USE DEF ServersInv, ServersAreWhole
  <1>1. /\ one \in tasks /\ one[1] \in M!Thread /\ one[2] \in 1 .. started
        /\ one = <<one[1], one[2], one[3]>>
    BY DEF M!Connected, M!ConnectFails
  <1>20. ServersAreWhole' BY <1>1 DEF ServersAreWhole, M!ConnectFails, M!Goes
  <1>21. WorkersAreApart' BY <1>1 DEF WorkersAreApart, M!ConnectFails, M!Goes, CallersWait
  <1>22. CallersWait' BY <1>1 DEF CallersWait, M!ConnectFails, M!Goes
  <1>23. M!ListedIsConnected'
    BY <1>1 DEF M!ListedIsConnected, M!ConnectFails, M!Goes, WorkersAreApart, CallersWait
  <1>24. M!LockIsHeldToConnect'
    BY <1>1 DEF M!LockIsHeldToConnect, M!ConnectFails, M!Goes, CallersWait
  <1>25. QED BY <1>20, <1>21, <1>22, <1>23, <1>24

LEMMA WorkerExited == ASSUME ServersInv, NEW w \in live, M!WorkerExits(w) PROVE ServersInv'
  <1> USE DEF ServersInv, ServersAreWhole
  <1>20. ServersAreWhole' BY DEF ServersAreWhole, M!WorkerExits, M!Dropped
  <1>21. WorkersAreApart' BY DEF WorkersAreApart, M!WorkerExits, M!Dropped, CallersWait
  <1>22. CallersWait' BY DEF CallersWait, M!WorkerExits, M!Dropped
  <1>23. M!ListedIsConnected'
    BY DEF M!ListedIsConnected, M!WorkerExits, M!Dropped, WorkersAreApart, CallersWait
  <1>24. M!LockIsHeldToConnect' BY DEF M!LockIsHeldToConnect, M!WorkerExits, M!Dropped, CallersWait
  <1>25. QED BY <1>20, <1>21, <1>22, <1>23, <1>24

LEMMA LockTaken == ASSUME ServersInv, NEW t \in M!Thread, M!Lock(t) PROVE ServersInv'
  <1> USE DEF ServersInv, ServersAreWhole
  <1>20. ServersAreWhole' BY DEF ServersAreWhole, M!Lock, M!Goes
  <1>21. WorkersAreApart' BY DEF WorkersAreApart, M!Lock, M!Goes, CallersWait
  <1>22. CallersWait' BY DEF CallersWait, M!Lock, M!Goes
  <1>23. M!ListedIsConnected'
    BY DEF M!ListedIsConnected, M!Lock, M!Goes, WorkersAreApart, CallersWait
  <1>24. M!LockIsHeldToConnect' BY DEF M!LockIsHeldToConnect, M!Lock, M!Goes, CallersWait
  <1>25. QED BY <1>20, <1>21, <1>22, <1>23, <1>24

LEMMA NoWorkerLeft ==
    ASSUME ServersInv, NEW t \in M!Thread, M!ConnectFailsAtOnce(t)
    PROVE  ServersInv'
  <1> USE DEF ServersInv, ServersAreWhole
  <1>20. ServersAreWhole' BY DEF ServersAreWhole, M!ConnectFailsAtOnce, M!Goes
  <1>21. WorkersAreApart' BY DEF WorkersAreApart, M!ConnectFailsAtOnce, M!Goes, CallersWait
  <1>22. CallersWait' BY DEF CallersWait, M!ConnectFailsAtOnce, M!Goes
  <1>23. M!ListedIsConnected'
    BY DEF M!ListedIsConnected, M!ConnectFailsAtOnce, M!Goes, WorkersAreApart, CallersWait
  <1>24. M!LockIsHeldToConnect'
    BY DEF M!LockIsHeldToConnect, M!ConnectFailsAtOnce, M!Goes, CallersWait
  <1>25. QED BY <1>20, <1>21, <1>22, <1>23, <1>24

LEMMA CallerLeaves == ASSUME ServersInv, NEW t \in M!Thread, M!Leave(t) PROVE ServersInv'
  <1> USE DEF ServersInv, ServersAreWhole
  <1>20. ServersAreWhole' BY DEF ServersAreWhole, M!Leave, M!Goes
  <1>21. WorkersAreApart' BY DEF WorkersAreApart, M!Leave, M!Goes, CallersWait
  <1>22. CallersWait' BY DEF CallersWait, M!Leave, M!Goes
  <1>23. M!ListedIsConnected'
    BY DEF M!ListedIsConnected, M!Leave, M!Goes, WorkersAreApart, CallersWait
  <1>24. M!LockIsHeldToConnect' BY DEF M!LockIsHeldToConnect, M!Leave, M!Goes, CallersWait
  <1>25. QED BY <1>20, <1>21, <1>22, <1>23, <1>24

LEMMA CallerGivesUp == ASSUME ServersInv, NEW t \in M!Thread, M!GiveUp(t) PROVE ServersInv'
  <1> USE DEF ServersInv, ServersAreWhole
  <1>1. ASSUME NEW one \in tasks'
        PROVE  \E was \in tasks : /\ one[1] = was[1] /\ one[2] = was[2]
                  /\ one = <<one[1], one[2], one[3]>>
                               /\ IF was[1] = t THEN one = <<t, was[2], TRUE>>
                                  /\ one[3] = TRUE ELSE one = was
    <2>1. PICK was \in tasks : one = IF was[1] = t THEN <<t, was[2], TRUE>> ELSE was
      BY <1>1 DEF M!GiveUp
    <2>2. CASE was[1] = t BY <2>1, <2>2
    <2>3. CASE was[1] # t BY <2>1, <2>3
    <2>4. QED BY <2>2, <2>3
  <1>2. /\ t # "user" /\ doing' = [doing EXCEPT ![t] = "idle"]
        /\ UNCHANGED <<started, conn, probe, old>>
        /\ doing[t] \in {"lock", "connect", "connecting"}
    BY DEF M!GiveUp, M!Goes
  <1>20. ServersAreWhole' BY <1>1, <1>2 DEF ServersAreWhole, M!GiveUp, M!Goes
  <1>21. WorkersAreApart'
    <2>1. ASSUME NEW one \in tasks', NEW other \in tasks', one[2] = other[2] PROVE one = other
      <3>1. PICK a \in tasks : /\ one[2] = a[2]
                               /\ IF a[1] = t THEN one = <<t, a[2], TRUE>>
                                  /\ one[3] = TRUE ELSE one = a
        BY <1>1
      <3>2. PICK b \in tasks : /\ other[2] = b[2]
                               /\ IF b[1] = t THEN other = <<t, b[2], TRUE>>
                                  /\ other[3] = TRUE ELSE other = b
        BY <1>1
      <3>3. a = b BY <2>1, <3>1, <3>2 DEF WorkersAreApart
      <3>4. CASE a[1] = t
        <4>1. one = <<t, a[2], TRUE>> BY <3>1, <3>4
        <4>2. other = <<t, a[2], TRUE>> BY <3>2, <3>3, <3>4
        <4>3. QED BY ONLY <4>1, <4>2
      <3>5. CASE a[1] # t
        <4>1. one = a BY <3>1, <3>5
        <4>2. other = a BY <3>2, <3>3, <3>5
        <4>3. QED BY ONLY <4>1, <4>2
      <3>6. QED BY <3>4, <3>5
    <2>2. \A one \in tasks' : one[2] \notin {conn, probe, old} BY <1>1 DEF WorkersAreApart
    <2>3. QED BY <1>2, <2>1, <2>2 DEF WorkersAreApart
  <1>22. CallersWait'
    <2>1. ASSUME NEW one \in tasks', ~one[3] PROVE one \in tasks /\ one[1] # t BY <1>1, <2>1
    <2>2. \A one \in tasks' : one[1] = "user" => ~one[3]
      <3>1. ASSUME NEW one \in tasks', one[1] = "user" PROVE ~one[3]
        <4>1. PICK a \in tasks : /\ one[1] = a[1]
                                 /\ IF a[1] = t THEN one = <<t, a[2], TRUE>>
                                    /\ one[3] = TRUE ELSE one = a
          BY <1>1
        <4>2. one = a BY <1>2, <3>1, <4>1
        <4>3. QED BY <3>1, <4>1, <4>2 DEF CallersWait
      <3>2. QED BY <3>1
    <2>3. \A one \in tasks' : ~one[3] => doing'[one[1]] \in {"connecting", "probing"}
      BY <1>2, <2>1 DEF CallersWait
    <2>4. \A one, other \in tasks' : one[1] = other[1] /\ ~one[3] /\ ~other[3] => one = other
      BY <2>1 DEF CallersWait
    <2>5. QED BY <2>2, <2>3, <2>4 DEF CallersWait
  <1>23. M!ListedIsConnected'
    BY <1>1, <1>2 DEF M!ListedIsConnected, M!GiveUp, M!Goes, WorkersAreApart, CallersWait
  <1>24. M!LockIsHeldToConnect'
    BY <1>1, <1>2 DEF M!LockIsHeldToConnect, M!GiveUp, M!Goes, CallersWait
  <1>25. QED BY <1>20, <1>21, <1>22, <1>23, <1>24

LEMMA ToolCalled == ASSUME ServersInv, NEW t \in M!Thread, M!Call(t) PROVE ServersInv'
  <1> USE DEF ServersInv, ServersAreWhole
  <1>20. ServersAreWhole' BY DEF ServersAreWhole, M!Call, M!Goes
  <1>21. WorkersAreApart' BY DEF WorkersAreApart, M!Call, M!Goes, CallersWait
  <1>22. CallersWait' BY DEF CallersWait, M!Call, M!Goes
  <1>23. M!ListedIsConnected'
    BY DEF M!ListedIsConnected, M!Call, M!Goes, WorkersAreApart, CallersWait
  <1>24. M!LockIsHeldToConnect' BY DEF M!LockIsHeldToConnect, M!Call, M!Goes, CallersWait
  <1>25. QED BY <1>20, <1>21, <1>22, <1>23, <1>24

LEMMA ToolDispatched == ASSUME ServersInv, NEW t \in M!Thread, M!Dispatch(t) PROVE ServersInv'
  <1> USE DEF ServersInv, ServersAreWhole
  <1>20. ServersAreWhole' BY DEF ServersAreWhole, M!Dispatch, M!Goes
  <1>21. WorkersAreApart' BY DEF WorkersAreApart, M!Dispatch, M!Goes, CallersWait
  <1>22. CallersWait' BY DEF CallersWait, M!Dispatch, M!Goes
  <1>23. M!ListedIsConnected'
    BY DEF M!ListedIsConnected, M!Dispatch, M!Goes, WorkersAreApart, CallersWait
  <1>24. M!LockIsHeldToConnect' BY DEF M!LockIsHeldToConnect, M!Dispatch, M!Goes, CallersWait
  <1>25. QED BY <1>20, <1>21, <1>22, <1>23, <1>24

LEMMA CallEnded == ASSUME ServersInv, NEW t \in M!Thread, M!CallEnds(t) PROVE ServersInv'
  <1> USE DEF ServersInv, ServersAreWhole
  <1>20. ServersAreWhole' BY DEF ServersAreWhole, M!CallEnds, M!Goes
  <1>21. WorkersAreApart' BY DEF WorkersAreApart, M!CallEnds, M!Goes, CallersWait
  <1>22. CallersWait' BY DEF CallersWait, M!CallEnds, M!Goes
  <1>23. M!ListedIsConnected'
    BY DEF M!ListedIsConnected, M!CallEnds, M!Goes, WorkersAreApart, CallersWait
  <1>24. M!LockIsHeldToConnect' BY DEF M!LockIsHeldToConnect, M!CallEnds, M!Goes, CallersWait
  <1>25. QED BY <1>20, <1>21, <1>22, <1>23, <1>24

LEMMA Discovered == ASSUME ServersInv, M!Discover PROVE ServersInv'
  <1> USE DEF ServersInv, ServersAreWhole
  <1>20. ServersAreWhole' BY DEF ServersAreWhole, M!Discover, M!Goes
  <1>21. WorkersAreApart' BY DEF WorkersAreApart, M!Discover, M!Goes, CallersWait
  <1>22. CallersWait' BY DEF CallersWait, M!Discover, M!Goes
  <1>23. M!ListedIsConnected'
    BY DEF M!ListedIsConnected, M!Discover, M!Goes, WorkersAreApart, CallersWait
  <1>24. M!LockIsHeldToConnect' BY DEF M!LockIsHeldToConnect, M!Discover, M!Goes, CallersWait
  <1>25. QED BY <1>20, <1>21, <1>22, <1>23, <1>24

LEMMA ToolsRegistered == ASSUME ServersInv, M!RegisterTools PROVE ServersInv'
  <1> USE DEF ServersInv, ServersAreWhole
  <1>20. ServersAreWhole' BY DEF ServersAreWhole, M!RegisterTools, M!Goes
  <1>21. WorkersAreApart' BY DEF WorkersAreApart, M!RegisterTools, M!Goes, CallersWait
  <1>22. CallersWait' BY DEF CallersWait, M!RegisterTools, M!Goes
  <1>23. M!ListedIsConnected'
    BY DEF M!ListedIsConnected, M!RegisterTools, M!Goes, WorkersAreApart, CallersWait
  <1>24. M!LockIsHeldToConnect' BY DEF M!LockIsHeldToConnect, M!RegisterTools, M!Goes, CallersWait
  <1>25. QED BY <1>20, <1>21, <1>22, <1>23, <1>24

LEMMA RevisionRecorded == ASSUME ServersInv, M!RecordRevision PROVE ServersInv'
  <1> USE DEF ServersInv, ServersAreWhole
  <1>20. ServersAreWhole' BY DEF ServersAreWhole, M!RecordRevision, M!Goes
  <1>21. WorkersAreApart' BY DEF WorkersAreApart, M!RecordRevision, M!Goes, CallersWait
  <1>22. CallersWait' BY DEF CallersWait, M!RecordRevision, M!Goes
  <1>23. M!ListedIsConnected'
    BY DEF M!ListedIsConnected, M!RecordRevision, M!Goes, WorkersAreApart, CallersWait
  <1>24. M!LockIsHeldToConnect' BY DEF M!LockIsHeldToConnect, M!RecordRevision, M!Goes, CallersWait
  <1>25. QED BY <1>20, <1>21, <1>22, <1>23, <1>24

LEMMA RegistryRebuilt == ASSUME ServersInv, M!Rebuild PROVE ServersInv'
  <1> USE DEF ServersInv, ServersAreWhole
  <1>20. ServersAreWhole' BY DEF ServersAreWhole, M!Rebuild, M!Goes
  <1>21. WorkersAreApart' BY DEF WorkersAreApart, M!Rebuild, M!Goes, CallersWait
  <1>22. CallersWait' BY DEF CallersWait, M!Rebuild, M!Goes
  <1>23. M!ListedIsConnected'
    BY DEF M!ListedIsConnected, M!Rebuild, M!Goes, WorkersAreApart, CallersWait
  <1>24. M!LockIsHeldToConnect' BY DEF M!LockIsHeldToConnect, M!Rebuild, M!Goes, CallersWait
  <1>25. QED BY <1>20, <1>21, <1>22, <1>23, <1>24

LEMMA ServerDropped == ASSUME ServersInv, M!Drop PROVE ServersInv'
  <1> USE DEF ServersInv, ServersAreWhole
  <1>20. ServersAreWhole' BY DEF ServersAreWhole, M!Drop, M!Quiet, M!Goes
  <1>21. WorkersAreApart' BY DEF WorkersAreApart, M!Drop, M!Quiet, M!Goes, CallersWait
  <1>22. CallersWait' BY DEF CallersWait, M!Drop, M!Quiet, M!Goes
  <1>23. M!ListedIsConnected'
    BY DEF M!ListedIsConnected, M!Drop, M!Quiet, M!Goes, WorkersAreApart, CallersWait
  <1>24. M!LockIsHeldToConnect' BY DEF M!LockIsHeldToConnect, M!Drop, M!Quiet, M!Goes, CallersWait
  <1>25. QED BY <1>20, <1>21, <1>22, <1>23, <1>24

LEMMA DropEnded == ASSUME ServersInv, M!DropEnds PROVE ServersInv'
  <1> USE DEF ServersInv, ServersAreWhole
  <1>20. ServersAreWhole' BY DEF ServersAreWhole, M!DropEnds, M!Dropped, M!Goes
  <1>21. WorkersAreApart' BY DEF WorkersAreApart, M!DropEnds, M!Dropped, M!Goes, CallersWait
  <1>22. CallersWait' BY DEF CallersWait, M!DropEnds, M!Dropped, M!Goes
  <1>23. M!ListedIsConnected'
    BY DEF M!ListedIsConnected, M!DropEnds, M!Dropped, M!Goes, WorkersAreApart, CallersWait
  <1>24. M!LockIsHeldToConnect'
    BY DEF M!LockIsHeldToConnect, M!DropEnds, M!Dropped, M!Goes, CallersWait
  <1>25. QED BY <1>20, <1>21, <1>22, <1>23, <1>24

LEMMA ProbeBegins == ASSUME ServersInv, M!Probe PROVE ServersInv'
  <1> USE DEF ServersInv, ServersAreWhole
  <1>1. PICK new : new = <<"user", started + 1, FALSE>> OBVIOUS
  <1>2. /\ new = <<new[1], new[2], new[3]>> /\ new[1] = "user" /\ new[2] = started + 1 /\ ~new[3]
        /\ started' = started + 1 /\ tasks' = tasks \union {new}
        /\ \A one \in tasks : one[2] \in 1 .. started /\ one[2] # started + 1
        /\ conn # started + 1 /\ probe # started + 1 /\ old # started + 1
    BY <1>1 DEF M!Probe
  <1>20. ServersAreWhole'
    <2>1. /\ DOMAIN doing' = M!Thread /\ started' \in Nat /\ lock' \in M!Thread \union {"none"}
          /\ conn' \in 0 .. started' /\ probe' \in 0 .. started' /\ old' \in 0 .. started'
      BY <1>2 DEF M!Probe, M!Goes
    <2>2. ASSUME NEW one \in tasks
          PROVE one = <<one[1], one[2], one[3]>> /\ one[1] \in M!Thread /\ one[2] \in 1 .. started'
      BY <1>2
    <2>3. new[1] \in M!Thread /\ new[2] \in 1 .. started' BY <1>2
    <2>4. QED BY <1>2, <2>1, <2>2, <2>3
  <1>21. WorkersAreApart' BY <1>2 DEF WorkersAreApart, M!Probe, M!Quiet, M!Goes, CallersWait
  <1>22. CallersWait' BY <1>2 DEF CallersWait, M!Probe, M!Quiet, M!Goes
  <1>23. M!ListedIsConnected'
    BY <1>2 DEF M!ListedIsConnected, M!Probe, M!Quiet, M!Goes, WorkersAreApart, CallersWait
  <1>24. M!LockIsHeldToConnect'
    BY <1>2 DEF M!LockIsHeldToConnect, M!Probe, M!Quiet, M!Goes, CallersWait
  <1>25. QED BY <1>20, <1>21, <1>22, <1>23, <1>24

LEMMA ConfigSaved == ASSUME ServersInv, M!Save PROVE ServersInv'
  <1> USE DEF ServersInv, ServersAreWhole
  <1>20. ServersAreWhole' BY DEF ServersAreWhole, M!Save, M!Goes
  <1>21. WorkersAreApart' BY DEF WorkersAreApart, M!Save, M!Goes, CallersWait
  <1>22. CallersWait' BY DEF CallersWait, M!Save, M!Goes
  <1>23. M!ListedIsConnected'
    BY DEF M!ListedIsConnected, M!Save, M!Goes, WorkersAreApart, CallersWait
  <1>24. M!LockIsHeldToConnect' BY DEF M!LockIsHeldToConnect, M!Save, M!Goes, CallersWait
  <1>25. QED BY <1>20, <1>21, <1>22, <1>23, <1>24

LEMMA ServerReplaced == ASSUME ServersInv, M!Replace PROVE ServersInv'
  <1> USE DEF ServersInv, ServersAreWhole
  <1>20. ServersAreWhole' BY DEF ServersAreWhole, M!Replace, M!Dropped, M!Goes
  <1>21. WorkersAreApart' BY DEF WorkersAreApart, M!Replace, M!Dropped, M!Goes, CallersWait
  <1>22. CallersWait' BY DEF CallersWait, M!Replace, M!Dropped, M!Goes
  <1>23. M!ListedIsConnected'
    BY DEF M!ListedIsConnected, M!Replace, M!Dropped, M!Goes, WorkersAreApart, CallersWait
  <1>24. M!LockIsHeldToConnect'
    BY DEF M!LockIsHeldToConnect, M!Replace, M!Dropped, M!Goes, CallersWait
  <1>25. QED BY <1>20, <1>21, <1>22, <1>23, <1>24

LEMMA ServersClosed == ASSUME ServersInv, M!Close PROVE ServersInv'
  <1> USE DEF ServersInv, ServersAreWhole
  <1>20. ServersAreWhole' BY DEF ServersAreWhole, M!Close, M!Quiet
  <1>21. WorkersAreApart' BY DEF WorkersAreApart, M!Close, M!Quiet, CallersWait
  <1>22. CallersWait' BY DEF CallersWait, M!Close, M!Quiet
  <1>23. M!ListedIsConnected'
    BY DEF M!ListedIsConnected, M!Close, M!Quiet, WorkersAreApart, CallersWait
  <1>24. M!LockIsHeldToConnect' BY DEF M!LockIsHeldToConnect, M!Close, M!Quiet, CallersWait
  <1>25. QED BY <1>20, <1>21, <1>22, <1>23, <1>24

LEMMA ServersStep == ASSUME ServersInv, M!Next PROVE ServersInv'
  <1>1. ASSUME NEW t \in M!Thread, M!LoopSteps(t) PROVE ServersInv'
    <2>1. ASSUME NEW one \in tasks, M!Connected(one) \/ M!ConnectFails(one) PROVE ServersInv'
      BY <2>1, ConnectEnds, ConnectFailed
    <2>2. CASE M!Lock(t) \/ M!Connect(t) \/ M!ConnectFailsAtOnce(t) \/ M!Leave(t)
                  \/ M!Dispatch(t) \/ M!CallEnds(t)
      BY <2>2, LockTaken, ConnectBegins, NoWorkerLeft, CallerLeaves, ToolDispatched, CallEnded
    <2>3. CASE M!RegisterTools \/ M!RecordRevision \/ M!DropEnds \/ M!Save \/ M!Replace \/ M!Rebuild
      BY <2>3, ToolsRegistered, RevisionRecorded, DropEnded, ConfigSaved, ServerReplaced,
         RegistryRebuilt
    <2>4. QED BY <1>1, <2>1, <2>2, <2>3 DEF M!LoopSteps
  <1>2. ASSUME NEW t \in M!Thread, M!GiveUp(t) \/ M!Call(t) PROVE ServersInv'
    BY <1>2, CallerGivesUp, ToolCalled
  <1>3. ASSUME NEW w \in live, M!WorkerExits(w) PROVE ServersInv' BY <1>3, WorkerExited
  <1>4. M!Discover \/ M!Rebuild \/ M!Drop \/ M!Probe \/ M!Close => ServersInv'
    BY Discovered, RegistryRebuilt, ServerDropped, ProbeBegins, ServersClosed
  <1>5. QED BY <1>1, <1>2, <1>3, <1>4 DEF M!Next

-----------------------------------------------------------------------------
(* Language servers (LanguageService), for any set of servers and any      *)
(* number of edits and versions.                                           *)

Known(s) == {doc[s], published[s]} \union {due[s][i] : i \in DOMAIN due[s]}

Document == [version : Nat, text : Nat]

\* The maps have an entry for every server.
DocumentsAreWhole ==
    /\ DOMAIN doc = Server /\ DOMAIN version = Server /\ DOMAIN due = Server
    /\ DOMAIN published = Server
    /\ \A s \in Server : /\ version[s] \in Nat /\ due[s] \in Seq(Document)
                         /\ doc[s] \in Document /\ published[s] \in Document

\* A question that is under way has its server.
ServiceIsWhole ==
    /\ DOMAIN state = Server /\ entry \in Server \union {0}
    /\ pending \subseteq Server /\ cleaning \subseteq Server
    /\ query.at \notin {"idle", "called"} => query.server \in Server
    /\ DOMAIN query = {"at", "text", "push", "server", "version"}

TextsAreTexts == disk \in Nat /\ edits \in Nat /\ query.text \in Nat

\* In one server a version is of one text, and the open document has the last one.
TextsAreNumbered ==
    \A s \in Server :
        /\ \A one, other \in Known(s) : one.version = other.version => one = other
        /\ \A one \in Known(s) : one.version <= version[s] /\ (one = L!Closed \/ one.version > 0)
        /\ doc[s] # L!Closed => doc[s].version = version[s]

\* The server that is asked has the text of the question, unless it is being closed and knows nothing.
QuestionIsSent ==
    query.at = "asking" =>
        \/ doc[query.server] = [version |-> query.version, text |-> query.text] /\ query.version > 0
        \/ state[query.server] # "live" /\ published[query.server] = L!Closed
           /\ due[query.server] = <<>>

ServersAreKept ==
    /\ \A s \in Server : state[s] \in {"live", "closing"}
       => s \in {entry} \union cleaning \union stray
    /\ over => entry = 0 /\ cleaning = {}

LanguageInv ==
    /\ DocumentsAreWhole /\ ServiceIsWhole /\ TextsAreTexts /\ TextsAreNumbered /\ QuestionIsSent
    /\ L!AnswersAreOfText /\ ServersAreKept

USE DEF L!server, L!document, L!Quiet, L!Closed

LEMMA LanguageInit == ASSUME L!Init PROVE LanguageInv
  <1>1. DocumentsAreWhole BY DEF L!Init, DocumentsAreWhole, Document
  <1>2. ServiceIsWhole BY DEF L!Init, ServiceIsWhole
  <1>3. TextsAreTexts BY DEF L!Init, TextsAreTexts
  <1>4. TextsAreNumbered BY DEF L!Init, TextsAreNumbered, Known
  <1>5. QuestionIsSent BY DEF L!Init, QuestionIsSent
  <1>6. L!AnswersAreOfText BY DEF L!Init, L!AnswersAreOfText, L!NoAnswer
  <1>7. ServersAreKept BY DEF L!Init, ServersAreKept
  <1>8. QED BY <1>1, <1>2, <1>3, <1>4, <1>5, <1>6, <1>7 DEF LanguageInv

\* As long as no document is sent, published or closed.
LEMMA DocumentsStay ==
    ASSUME DocumentsAreWhole, TextsAreNumbered, UNCHANGED <<doc, version, due, published>>
    PROVE  DocumentsAreWhole' /\ TextsAreNumbered'
  <1>1. \A s : Known(s)' = Known(s) BY DEF Known
  <1>2. QED BY <1>1 DEF DocumentsAreWhole, TextsAreNumbered

LEMMA DocumentsForgotten ==
    ASSUME DocumentsAreWhole, TextsAreNumbered, NEW s \in Server, L!ForgetDocument(s)
    PROVE  DocumentsAreWhole' /\ TextsAreNumbered'
  <1>1. /\ doc'[s] = L!Closed /\ published'[s] = L!Closed /\ due'[s] = <<>> /\ version'[s] = 0
        /\ \A t \in Server : t # s => /\ doc'[t] = doc[t] /\ published'[t] = published[t]
                                      /\ due'[t] = due[t] /\ version'[t] = version[t]
        /\ DOMAIN doc' = Server /\ DOMAIN version' = Server /\ DOMAIN due' = Server
        /\ DOMAIN published' = Server
    BY DEF L!ForgetDocument, DocumentsAreWhole
  <1>2. L!Closed \in Document /\ L!Closed.version = 0 BY DEF Document
  <1> HIDE DEF L!Closed
  <1>3. DocumentsAreWhole'
    <2>1. <<>> \in Seq(Document) OBVIOUS
    <2>2. ASSUME NEW t \in Server
          PROVE version'[t] \in Nat /\ due'[t] \in Seq(Document) /\ doc'[t] \in Document
                   /\ published'[t] \in Document
      <3>1. CASE t = s BY <1>1, <1>2, <2>1, <3>1
      <3>2. CASE t # s BY <1>1, <3>2 DEF DocumentsAreWhole
      <3>3. QED BY <3>1, <3>2
    <2>3. QED BY <1>1, <2>2 DEF DocumentsAreWhole
  <1>4. Known(s)' = {L!Closed} BY <1>1 DEF Known
  <1>5. \A t \in Server : t # s => Known(t)' = Known(t) BY <1>1 DEF Known
  <1>6. QED BY <1>1, <1>2, <1>3, <1>4, <1>5 DEF TextsAreNumbered


LEMMA FileChanges == ASSUME HelpersAssumption, LanguageInv, L!Change PROVE LanguageInv'
  <1> USE DEF LanguageInv
  <1>20. DocumentsAreWhole' /\ TextsAreNumbered' BY DocumentsStay DEF L!Change, L!Live
  <1>21. ServiceIsWhole' BY DEF ServiceIsWhole, L!Change, L!Live
  <1>22. TextsAreTexts' BY DEF TextsAreTexts, L!Change, L!Live
  <1>23. QuestionIsSent' BY DEF QuestionIsSent, L!Change, L!Live, ServiceIsWhole, DocumentsAreWhole
  <1>24. L!AnswersAreOfText' BY DEF L!AnswersAreOfText, L!Change, L!Live, QuestionIsSent
  <1>25. ServersAreKept' BY DEF ServersAreKept, L!Change, L!Live, ServiceIsWhole
  <1>26. QED BY <1>20, <1>21, <1>22, <1>23, <1>24, <1>25

LEMMA QuestionAsked == ASSUME HelpersAssumption, LanguageInv, ~over, L!Ask PROVE LanguageInv'
  <1> USE DEF LanguageInv
  <1>20. DocumentsAreWhole' /\ TextsAreNumbered' BY DocumentsStay DEF L!Ask, L!NoAnswer
  <1>21. ServiceIsWhole' BY DEF ServiceIsWhole, L!Ask, L!NoAnswer
  <1>22. TextsAreTexts' BY DEF TextsAreTexts, L!Ask, L!NoAnswer
  <1>23. QuestionIsSent' BY DEF QuestionIsSent, L!Ask, L!NoAnswer, ServiceIsWhole, DocumentsAreWhole
  <1>24. L!AnswersAreOfText' BY DEF L!AnswersAreOfText, L!Ask, L!NoAnswer, QuestionIsSent
  <1>25. ServersAreKept' BY DEF ServersAreKept, L!Ask, L!NoAnswer, ServiceIsWhole
  <1>26. QED BY <1>20, <1>21, <1>22, <1>23, <1>24, <1>25

LEMMA ServerTaken == ASSUME HelpersAssumption, LanguageInv, ~over, L!TakeServer PROVE LanguageInv'
  <1> USE DEF LanguageInv
  <1>1. /\ query'.at \in {"ready", "starting"} /\ query'.server \in Server
        /\ query'.text = query.text
        /\ DOMAIN query' = {"at", "text", "push", "server", "version"}
    <2>1. CASE entry # 0 BY <2>1 DEF L!TakeServer, ServiceIsWhole
    <2>2. CASE entry = 0 BY <2>2 DEF L!TakeServer, ServiceIsWhole
    <2>3. QED BY <2>1, <2>2
  <1>2. /\ DOMAIN state' = Server /\ entry' \in Server \union {0}
        /\ UNCHANGED <<disk, edits, pending, cleaning>>
    BY DEF L!TakeServer, ServiceIsWhole
  <1>21. ServiceIsWhole' BY <1>1, <1>2 DEF ServiceIsWhole
  <1>22. TextsAreTexts' BY <1>1, <1>2 DEF TextsAreTexts
  <1>23. QuestionIsSent' BY <1>1 DEF QuestionIsSent
  <1>20. DocumentsAreWhole' /\ TextsAreNumbered' BY DocumentsStay DEF L!TakeServer
  <1>24. L!AnswersAreOfText' BY DEF L!AnswersAreOfText, L!TakeServer, QuestionIsSent
  <1>25. ServersAreKept' BY DEF ServersAreKept, L!TakeServer, ServiceIsWhole
  <1>26. QED BY <1>20, <1>21, <1>22, <1>23, <1>24, <1>25

LEMMA ServerStarted ==
    ASSUME HelpersAssumption, LanguageInv, ~over, L!ServerStarts
    PROVE  LanguageInv'
  <1> USE DEF LanguageInv
  <1>20. DocumentsAreWhole' /\ TextsAreNumbered' BY DocumentsStay DEF L!ServerStarts
  <1>21. ServiceIsWhole' BY DEF ServiceIsWhole, L!ServerStarts
  <1>22. TextsAreTexts' BY DEF TextsAreTexts, L!ServerStarts
  <1>23. QuestionIsSent' BY DEF QuestionIsSent, L!ServerStarts, ServiceIsWhole, DocumentsAreWhole
  <1>24. L!AnswersAreOfText' BY DEF L!AnswersAreOfText, L!ServerStarts, QuestionIsSent
  <1>25. ServersAreKept' BY DEF ServersAreKept, L!ServerStarts, ServiceIsWhole
  <1>26. QED BY <1>20, <1>21, <1>22, <1>23, <1>24, <1>25

LEMMA Answered == ASSUME HelpersAssumption, LanguageInv, ~over, L!Replies PROVE LanguageInv'
  <1> USE DEF LanguageInv
  <1>20. DocumentsAreWhole' /\ TextsAreNumbered' BY DocumentsStay DEF L!Replies
  <1>21. ServiceIsWhole' BY DEF ServiceIsWhole, L!Replies
  <1>22. TextsAreTexts' BY DEF TextsAreTexts, L!Replies
  <1>23. QuestionIsSent' BY DEF QuestionIsSent, L!Replies, ServiceIsWhole, DocumentsAreWhole
  <1>24. L!AnswersAreOfText' BY DEF L!AnswersAreOfText, L!Replies, QuestionIsSent
  <1>25. ServersAreKept' BY DEF ServersAreKept, L!Replies, ServiceIsWhole
  <1>26. QED BY <1>20, <1>21, <1>22, <1>23, <1>24, <1>25

LEMMA Received == ASSUME HelpersAssumption, LanguageInv, ~over, L!Receives PROVE LanguageInv'
  <1> USE DEF LanguageInv
  <1>20. DocumentsAreWhole' /\ TextsAreNumbered' BY DocumentsStay DEF L!Receives, L!IsFresh
  <1>21. ServiceIsWhole' BY DEF ServiceIsWhole, L!Receives, L!IsFresh
  <1>22. TextsAreTexts' BY DEF TextsAreTexts, L!Receives, L!IsFresh
  <1>23. QuestionIsSent'
    BY DEF QuestionIsSent, L!Receives, L!IsFresh, ServiceIsWhole, DocumentsAreWhole
  <1>24. L!AnswersAreOfText'
    <2>1. /\ published[query.server] # L!Closed /\ query.at = "asking" /\ numbered' = numbered
          /\ answer' = [asked |-> query.text, got |-> published[query.server].text]
          /\ numbered => published[query.server].version = query.version
      BY DEF L!Receives, L!IsFresh
    <2>2. doc[query.server] = [version |-> query.version, text |-> query.text]
             /\ query.server \in Server
      BY <2>1 DEF QuestionIsSent, ServiceIsWhole
    <2>a. published[query.server] \in Known(query.server)
             /\ doc[query.server] \in Known(query.server)
      BY DEF Known
    <2>b. doc[query.server].version = query.version BY <2>2
    <2>3. numbered => published[query.server] = doc[query.server]
      BY <2>1, <2>2, <2>a, <2>b DEF TextsAreNumbered
    <2>4. QED BY <2>1, <2>2, <2>3 DEF L!AnswersAreOfText
  <1>25. ServersAreKept' BY DEF ServersAreKept, L!Receives, L!IsFresh, ServiceIsWhole
  <1>26. QED BY <1>20, <1>21, <1>22, <1>23, <1>24, <1>25

LEMMA QuestionFails == ASSUME HelpersAssumption, LanguageInv, ~over, L!Fail PROVE LanguageInv'
  <1> USE DEF LanguageInv
  <1>20. DocumentsAreWhole' /\ TextsAreNumbered' BY DocumentsStay DEF L!Fail
  <1>21. ServiceIsWhole' BY DEF ServiceIsWhole, L!Fail
  <1>22. TextsAreTexts' BY DEF TextsAreTexts, L!Fail
  <1>23. QuestionIsSent' BY DEF QuestionIsSent, L!Fail, ServiceIsWhole, DocumentsAreWhole
  <1>24. L!AnswersAreOfText' BY DEF L!AnswersAreOfText, L!Fail, QuestionIsSent
  <1>25. ServersAreKept' BY DEF ServersAreKept, L!Fail, ServiceIsWhole
  <1>26. QED BY <1>20, <1>21, <1>22, <1>23, <1>24, <1>25

LEMMA ServerCloses == ASSUME HelpersAssumption, LanguageInv, ~over, L!CloseBegins PROVE LanguageInv'
  <1> USE DEF LanguageInv
  <1>1. query.server \in Server BY DEF L!CloseBegins, ServiceIsWhole
  <1>20. DocumentsAreWhole' /\ TextsAreNumbered' BY <1>1, DocumentsForgotten DEF L!CloseBegins
  <1>21. ServiceIsWhole' BY DEF ServiceIsWhole, L!CloseBegins, L!ForgetDocument
  <1>22. TextsAreTexts' BY DEF TextsAreTexts, L!CloseBegins, L!ForgetDocument
  <1>23. QuestionIsSent'
    BY DEF QuestionIsSent, L!CloseBegins, L!ForgetDocument, ServiceIsWhole, DocumentsAreWhole
  <1>24. L!AnswersAreOfText'
    BY DEF L!AnswersAreOfText, L!CloseBegins, L!ForgetDocument, QuestionIsSent
  <1>25. ServersAreKept' BY DEF ServersAreKept, L!CloseBegins, L!ForgetDocument, ServiceIsWhole
  <1>26. QED BY <1>20, <1>21, <1>22, <1>23, <1>24, <1>25

LEMMA ServerClosed == ASSUME HelpersAssumption, LanguageInv, ~over, L!CloseEnds PROVE LanguageInv'
  <1> USE DEF LanguageInv
  <1>20. DocumentsAreWhole' /\ TextsAreNumbered' BY DocumentsStay DEF L!CloseEnds, L!RemoveEntry
  <1>21. ServiceIsWhole' BY DEF ServiceIsWhole, L!CloseEnds, L!RemoveEntry
  <1>22. TextsAreTexts' BY DEF TextsAreTexts, L!CloseEnds, L!RemoveEntry
  <1>23. QuestionIsSent'
    BY DEF QuestionIsSent, L!CloseEnds, L!RemoveEntry, ServiceIsWhole, DocumentsAreWhole
  <1>24. L!AnswersAreOfText' BY DEF L!AnswersAreOfText, L!CloseEnds, L!RemoveEntry, QuestionIsSent
  <1>25. ServersAreKept' BY DEF ServersAreKept, L!CloseEnds, L!RemoveEntry, ServiceIsWhole
  <1>26. QED BY <1>20, <1>21, <1>22, <1>23, <1>24, <1>25

LEMMA QuestionGivenUp == ASSUME HelpersAssumption, LanguageInv, ~over, L!GiveUp PROVE LanguageInv'
  <1> USE DEF LanguageInv
  <1>20. DocumentsAreWhole' /\ TextsAreNumbered' BY DocumentsStay DEF L!GiveUp
  <1>21. ServiceIsWhole' BY DEF ServiceIsWhole, L!GiveUp
  <1>22. TextsAreTexts' BY DEF TextsAreTexts, L!GiveUp
  <1>23. QuestionIsSent' BY DEF QuestionIsSent, L!GiveUp, ServiceIsWhole, DocumentsAreWhole
  <1>24. L!AnswersAreOfText' BY DEF L!AnswersAreOfText, L!GiveUp, QuestionIsSent
  <1>25. ServersAreKept' BY DEF ServersAreKept, L!GiveUp, ServiceIsWhole
  <1>26. QED BY <1>20, <1>21, <1>22, <1>23, <1>24, <1>25

LEMMA CleanupBegun ==
    ASSUME HelpersAssumption, LanguageInv, ~over, NEW s \in Server, L!CleanupBegins(s)
    PROVE  LanguageInv'
  <1> USE DEF LanguageInv
  <1>20. DocumentsAreWhole' /\ TextsAreNumbered' BY DocumentsForgotten DEF L!CleanupBegins
  <1>21. ServiceIsWhole' BY DEF ServiceIsWhole, L!CleanupBegins, L!ForgetDocument
  <1>22. TextsAreTexts' BY DEF TextsAreTexts, L!CleanupBegins, L!ForgetDocument
  <1>23. QuestionIsSent'
    BY DEF QuestionIsSent, L!CleanupBegins, L!ForgetDocument, ServiceIsWhole, DocumentsAreWhole
  <1>24. L!AnswersAreOfText'
    BY DEF L!AnswersAreOfText, L!CleanupBegins, L!ForgetDocument, QuestionIsSent
  <1>25. ServersAreKept' BY DEF ServersAreKept, L!CleanupBegins, L!ForgetDocument, ServiceIsWhole
  <1>26. QED BY <1>20, <1>21, <1>22, <1>23, <1>24, <1>25

LEMMA CleanupEnded ==
    ASSUME HelpersAssumption, LanguageInv, ~over, NEW s \in Server, L!CleanupEnds(s)
    PROVE  LanguageInv'
  <1> USE DEF LanguageInv
  <1>20. DocumentsAreWhole' /\ TextsAreNumbered' BY DocumentsStay DEF L!CleanupEnds, L!RemoveEntry
  <1>21. ServiceIsWhole' BY DEF ServiceIsWhole, L!CleanupEnds, L!RemoveEntry
  <1>22. TextsAreTexts' BY DEF TextsAreTexts, L!CleanupEnds, L!RemoveEntry
  <1>23. QuestionIsSent'
    BY DEF QuestionIsSent, L!CleanupEnds, L!RemoveEntry, ServiceIsWhole, DocumentsAreWhole
  <1>24. L!AnswersAreOfText' BY DEF L!AnswersAreOfText, L!CleanupEnds, L!RemoveEntry, QuestionIsSent
  <1>25. ServersAreKept' BY DEF ServersAreKept, L!CleanupEnds, L!RemoveEntry, ServiceIsWhole
  <1>26. QED BY <1>20, <1>21, <1>22, <1>23, <1>24, <1>25

LEMMA ServiceClosed == ASSUME HelpersAssumption, LanguageInv, ~over, L!Close PROVE LanguageInv'
  <1> USE DEF LanguageInv
  <1>20. DocumentsAreWhole' /\ TextsAreNumbered' BY DocumentsStay DEF L!Close
  <1>21. ServiceIsWhole' BY DEF ServiceIsWhole, L!Close
  <1>22. TextsAreTexts' BY DEF TextsAreTexts, L!Close
  <1>23. QuestionIsSent' BY DEF QuestionIsSent, L!Close, ServiceIsWhole, DocumentsAreWhole
  <1>24. L!AnswersAreOfText' BY DEF L!AnswersAreOfText, L!Close, QuestionIsSent
  <1>25. ServersAreKept' BY DEF ServersAreKept, L!Close, ServiceIsWhole
  <1>26. QED BY <1>20, <1>21, <1>22, <1>23, <1>24, <1>25

LEMMA ServerPublishes ==
    ASSUME HelpersAssumption, LanguageInv, ~over, NEW s \in Server, L!Publish(s) PROVE LanguageInv'
  <1> USE DEF LanguageInv
  <1>1. /\ due[s] \in Seq(Document) /\ due[s] # <<>> /\ DOMAIN due = Server
        /\ DOMAIN published = Server
        /\ published[s] \in Document
    BY DEF L!Publish, DocumentsAreWhole
  <1>2. /\ Head(due[s]) \in Document /\ Tail(due[s]) \in Seq(Document)
        /\ Head(due[s]) = due[s][1] /\ 1 \in DOMAIN due[s]
        /\ \A i \in DOMAIN Tail(due[s]) : i + 1 \in DOMAIN due[s] /\ Tail(due[s])[i] = due[s][i + 1]
    BY <1>1
  <1>3. /\ due' = [due EXCEPT ![s] = Tail(due[s])] /\ UNCHANGED <<doc, version, query, state>>
        /\ state[s] = "live"
        /\ published' = published \/ published' = [published EXCEPT ![s] = Head(due[s])]
    BY DEF L!Publish
  <1>4. DocumentsAreWhole' BY <1>1, <1>2, <1>3 DEF DocumentsAreWhole
  <1>5. \A t \in Server : Known(t)' \subseteq Known(t)
    <2>1. ASSUME NEW t \in Server, t # s PROVE Known(t)' = Known(t) BY <1>1, <1>3, <2>1 DEF Known
    <2>2. due'[s] = Tail(due[s]) /\ published'[s] \in {published[s], due[s][1]} /\ doc'[s] = doc[s]
      BY <1>1, <1>2, <1>3
    <2>3. ASSUME NEW one \in Known(s)' PROVE one \in Known(s)
      <3>1. CASE one \in {doc'[s], published'[s]} BY <1>2, <2>2, <3>1 DEF Known
      <3>2. CASE \E i \in DOMAIN due'[s] : one = due'[s][i] BY <1>2, <2>2, <3>2 DEF Known
      <3>3. QED BY <2>3, <3>1, <3>2 DEF Known
    <2>4. QED BY <2>1, <2>3
  <1>20. DocumentsAreWhole' /\ TextsAreNumbered' BY <1>3, <1>4, <1>5 DEF TextsAreNumbered
  <1>21. ServiceIsWhole' BY DEF ServiceIsWhole, L!Publish
  <1>22. TextsAreTexts' BY DEF TextsAreTexts, L!Publish
  <1>23. QuestionIsSent' BY <1>1, <1>3 DEF QuestionIsSent, ServiceIsWhole
  <1>24. L!AnswersAreOfText' BY DEF L!AnswersAreOfText, L!Publish
  <1>25. ServersAreKept' BY DEF ServersAreKept, L!Publish
  <1>26. QED BY <1>20, <1>21, <1>22, <1>23, <1>24, <1>25

LEMMA JoinedLists ==
    ASSUME NEW S, NEW front \in Seq(S), NEW back \in Seq(S)
    PROVE  /\ front \o back \in Seq(S)
           /\ \A i \in DOMAIN (front \o back) : (\E k \in DOMAIN front : (front \o back)[i] = front[k])
                                                \/ (\E k \in DOMAIN back : (front \o back)[i] = back[k])
  OBVIOUS

LEMMA DocumentsSent ==
    ASSUME HelpersAssumption, LanguageInv, ~over, L!Sync PROVE LanguageInv'
  <1> USE DEF LanguageInv
  <1>1. PICK s : s = query.server OBVIOUS
  <1>2. s \in Server /\ query.at = "ready" BY <1>1 DEF L!Sync, ServiceIsWhole
  <1>3. UNCHANGED <<disk, edits, numbered, entry, state, cleaning, stray, answer, over>>
    BY DEF L!Sync
  <1>4. CASE state[s] # "live"
    <2>1. query' = [query EXCEPT !.at = "failing"]
             /\ UNCHANGED <<pending, doc, version, due, published>>
      BY <1>1, <1>4 DEF L!Sync
    <2>2. DocumentsAreWhole' /\ TextsAreNumbered' BY <2>1, DocumentsStay
    <2>3. ServiceIsWhole' /\ TextsAreTexts'
      BY <1>1, <1>2, <1>3, <2>1 DEF ServiceIsWhole, TextsAreTexts
    <2>4. QuestionIsSent' BY <2>1 DEF QuestionIsSent, ServiceIsWhole
    <2>5. L!AnswersAreOfText' /\ ServersAreKept'
      BY <1>3, <2>1 DEF L!AnswersAreOfText, ServersAreKept
    <2>6. QED BY <2>2, <2>3, <2>4, <2>5
  <1>5. CASE state[s] = "live"
    <2>1. PICK reported \in BOOLEAN :
              LET watched == L!AfterWatch(query.server, reported)
                  known == IF watched = L!Closed THEN version[query.server] ELSE watched.version
                  last == L!Synced(watched, known, query.text, query.push)
                  posted == L!Sent(doc[query.server], watched) \o L!Sent(watched, last)
              IN /\ reported => query.server \in pending
                 /\ last.version <= MaxVersion
                 /\ doc' = [doc EXCEPT ![query.server] = last]
                 /\ version' = [version EXCEPT ![query.server] = last.version]
                 /\ due' = [due EXCEPT ![query.server] = @ \o posted]
                 /\ published' = IF reported
                    \/ posted # <<>> THEN [published EXCEPT ![query.server] = L!Closed]
                       ELSE published
                 /\ pending' = IF reported THEN pending \ {query.server} ELSE pending
                 /\ query' = [query EXCEPT !.at = "asking", !.version = last.version]
      BY <1>1, <1>5 DEF L!Sync
    <2> DEFINE watched == L!AfterWatch(s, reported)
               known == IF watched = L!Closed THEN version[s] ELSE watched.version
               last == L!Synced(watched, known, query.text, query.push)
               posted == L!Sent(doc[s], watched) \o L!Sent(watched, last)
               v == version[s]
               new == [version |-> v + 1, text |-> disk]
    <2>a. /\ watched = L!AfterWatch(query.server, reported)
          /\ known = IF watched = L!Closed THEN version[query.server] ELSE watched.version
          /\ posted = L!Sent(doc[query.server], watched) \o L!Sent(watched, last)
      BY <1>1
    <2>2. /\ doc' = [doc EXCEPT ![s] = last] /\ version' = [version EXCEPT ![s] = last.version]
          /\ due' = [due EXCEPT ![s] = @ \o posted]
          /\ published' \in {published, [published EXCEPT ![s] = L!Closed]}
          /\ pending' \subseteq pending
          /\ query' = [query EXCEPT !.at = "asking", !.version = last.version]
      BY <1>1, <2>1, <2>a
    <2>3. reported \in BOOLEAN OBVIOUS
    <2>4. watched = doc[s] \/ watched = L!Closed \/ (doc[s] # L!Closed /\ watched = new)
      BY <2>3 DEF L!AfterWatch, L!Synced
    <2>5. \/ last = [version |-> known + 1, text |-> query.text]
          \/ last = watched /\ watched # L!Closed /\ watched.text = query.text
      BY DEF L!Synced
    <2>6. L!Sent(doc[s], watched) = <<>> \/ (watched \notin {doc[s], L!Closed}
             /\ L!Sent(doc[s], watched) = <<watched>>)
      BY DEF L!Sent
    <2>7. L!Sent(watched, last) = <<>> \/ L!Sent(watched, last) = <<last>> BY DEF L!Sent
    <2>8. known = IF watched = L!Closed THEN v ELSE watched.version OBVIOUS
    <2>9. /\ v \in Nat /\ doc[s] \in Document /\ disk \in Nat /\ query.text \in Nat
          /\ doc[s] = L!Closed \/ (doc[s].version = v /\ v > 0)
      <3>1. doc[s] \in Known(s) BY DEF Known
      <3>2. QED BY <1>2, <3>1 DEF DocumentsAreWhole, TextsAreTexts, TextsAreNumbered
    <2> HIDE DEF watched, known, last
    <2>10. \/ watched \in {doc[s], L!Closed} /\ last = doc[s] /\ last.version = v
              /\ last.text = query.text /\ v > 0
           \/ watched \in {doc[s], L!Closed} /\ last = [version |-> v + 1, text |-> query.text]
           \/ watched = new /\ last = new /\ disk = query.text
           \/ watched = new /\ last = [version |-> v + 2, text |-> query.text]
      BY <2>4, <2>5, <2>8, <2>9 DEF Document
    <2>11. last \in Document /\ last.text = query.text /\ last.version > 0 /\ last.version >= v
           /\ last = [version |-> last.version, text |-> query.text]
      BY <2>9, <2>10 DEF Document
    <2> DEFINE Is(one) == one \in Document /\ (one = last \/ (one = watched
       /\ watched \notin {doc[s], L!Closed}))
    <2>b. watched \in Document \/ watched \in {doc[s], L!Closed} BY <2>9, <2>10 DEF Document
    <2>c. PICK front : front = L!Sent(doc[s], watched) OBVIOUS
    <2>d. PICK back : back = L!Sent(watched, last) OBVIOUS
    <2>e. front \in Seq(Document) /\ \A i \in DOMAIN front : Is(front[i])
      <3>1. CASE front = <<>> BY <3>1
      <3>2. CASE watched \notin {doc[s], L!Closed} /\ front = <<watched>>
        <4>1. Is(watched) BY <2>b, <3>2
        <4>2. QED BY <3>2, <4>1
      <3>3. QED BY <2>6, <2>c, <3>1, <3>2
    <2>f. back \in Seq(Document) /\ \A i \in DOMAIN back : Is(back[i])
      <3>1. CASE back = <<>> BY <3>1
      <3>2. CASE back = <<last>>
        <4>1. Is(last) BY <2>11
        <4>2. QED BY <3>2, <4>1
      <3>3. QED BY <2>7, <2>d, <3>1, <3>2
    <2>g. posted = front \o back BY <2>c, <2>d
    <2> HIDE DEF Is, posted
    <2>12. \A i \in DOMAIN posted : Is(posted[i]) BY <2>e, <2>f, <2>g, JoinedLists
    <2>13. posted \in Seq(Document) BY <2>e, <2>f, <2>g, JoinedLists
    <2> USE DEF Is
    <2> HIDE DEF posted
    <2>14. due[s] \in Seq(Document) /\ due'[s] = due[s] \o posted
      BY <1>2, <2>2 DEF DocumentsAreWhole
    <2>15. /\ due'[s] \in Seq(Document)
           /\ \A i \in DOMAIN due'[s] : (\E k \in DOMAIN due[s] : due'[s][i] = due[s][k])
              \/ (\E k \in DOMAIN posted : due'[s][i] = posted[k])
      BY <2>13, <2>14
    <2>16. /\ doc'[s] = last /\ version'[s] = last.version
           /\ published'[s] \in {published[s], L!Closed}
           /\ \A t \in Server : t # s => /\ doc'[t] = doc[t] /\ published'[t] = published[t]
                                         /\ due'[t] = due[t] /\ version'[t] = version[t]
           /\ DOMAIN doc' = Server /\ DOMAIN version' = Server /\ DOMAIN due' = Server
           /\ DOMAIN published' = Server
      BY <1>2, <2>2 DEF DocumentsAreWhole
    <2>17. DocumentsAreWhole'
      <3>1. L!Closed \in Document BY DEF Document
      <3> HIDE DEF L!Closed
      <3>2. version'[s] \in Nat /\ doc'[s] \in Document /\ published'[s] \in Document
        BY <1>2, <2>11, <2>16, <3>1 DEF DocumentsAreWhole, Document
      <3>3. ASSUME NEW t \in Server
            PROVE version'[t] \in Nat /\ due'[t] \in Seq(Document) /\ doc'[t] \in Document
                     /\ published'[t] \in Document
        <4>1. CASE t = s BY <2>15, <3>2, <4>1
        <4>2. CASE t # s BY <2>16, <4>2 DEF DocumentsAreWhole
        <4>3. QED BY <4>1, <4>2
      <3>4. QED BY <2>16, <3>3 DEF DocumentsAreWhole
    <2>18. TextsAreNumbered'
      <3>1. \A t \in Server : t # s => Known(t)' = Known(t) BY <2>16 DEF Known
      <3>2. ASSUME NEW one \in Known(s)'
            PROVE  one \in Known(s) \/ one = L!Closed \/ one = last \/ (one = watched
                      /\ watched \notin {doc[s], L!Closed})
        <4>1. one \in {last, published[s], L!Closed} \/ \E i \in DOMAIN due'[s] : one = due'[s][i]
          BY <2>16 DEF Known
        <4>2. CASE \E i \in DOMAIN due'[s] : one = due'[s][i] BY <4>2, <2>12, <2>15 DEF Known
        <4>3. QED BY <4>1, <4>2 DEF Known
      <3>3. \A one \in Known(s) : one.version <= v /\ (one = L!Closed \/ one.version > 0)
               /\ one.version \in Nat
        <4>1. \A one \in Known(s) : one \in Document BY <1>2 DEF Known, DocumentsAreWhole
        <4>2. QED BY <1>2, <4>1 DEF TextsAreNumbered, Document
      <3>4. ASSUME NEW one \in Known(s)'
            PROVE  /\ one.version <= last.version /\ (one = L!Closed \/ one.version > 0)
                   /\ one \in Known(s) \/ one = L!Closed \/ one = last
                      \/ (one = new /\ watched = new /\ last.version \in {v + 1, v + 2})
        BY <2>9, <2>10, <2>11, <3>2, <3>3
      <3>5. ASSUME NEW one \in Known(s)', NEW other \in Known(s)', one.version = other.version
            PROVE one = other
        <4>1. \A a, b \in Known(s) : a.version = b.version => a = b BY <1>2 DEF TextsAreNumbered
        <4>2. doc[s] \in Known(s) BY DEF Known
        <4>3. QED BY <2>9, <2>10, <2>11, <3>2, <3>3, <3>5, <4>1, <4>2
      <3>6. QED BY <2>11, <2>16, <3>1, <3>4, <3>5 DEF TextsAreNumbered
    <2>19. /\ DOMAIN query' = {"at", "text", "push", "server", "version"} /\ query'.at = "asking"
           /\ query'.server = s /\ query'.text = query.text /\ query'.version = last.version
      BY <1>1, <2>2 DEF ServiceIsWhole
    <2>20. ServiceIsWhole' BY <1>2, <1>3, <2>2, <2>19 DEF ServiceIsWhole
    <2>21. TextsAreTexts' BY <1>3, <2>19 DEF TextsAreTexts
    <2>22. QuestionIsSent' BY <2>11, <2>16, <2>19 DEF QuestionIsSent
    <2>23. L!AnswersAreOfText' /\ ServersAreKept' BY <1>3 DEF L!AnswersAreOfText, ServersAreKept
    <2>24. QED BY <2>17, <2>18, <2>20, <2>21, <2>22, <2>23
  <1>6. QED BY <1>4, <1>5

LEMMA LanguageSteps == ASSUME HelpersAssumption, LanguageInv, L!Next PROVE LanguageInv'
  <1>1. L!Change => LanguageInv' BY FileChanges
  <1>2. ~over /\ (L!Ask \/ L!TakeServer \/ L!ServerStarts \/ L!Sync \/ L!Replies \/ L!Receives
           \/ L!Fail) => LanguageInv'
    BY QuestionAsked, ServerTaken, ServerStarted, DocumentsSent, Answered, Received, QuestionFails
  <1>3. ~over /\ (L!CloseBegins \/ L!CloseEnds \/ L!GiveUp \/ L!Close) => LanguageInv'
    BY ServerCloses, ServerClosed, QuestionGivenUp, ServiceClosed
  <1>4. ASSUME ~over, NEW s \in Server, L!Publish(s) \/ L!CleanupBegins(s) \/ L!CleanupEnds(s)
        PROVE LanguageInv'
    BY <1>4, ServerPublishes, CleanupBegun, CleanupEnded
  <1>5. QED BY <1>1, <1>2, <1>3, <1>4 DEF L!Next

LEMMA LanguageIsSafe ==
    ASSUME HelpersAssumption, LanguageInv
    PROVE  L!AnswersAreOfText /\ L!ServersAreKnown
  <1> USE DEF LanguageInv, ServersAreKept
  <1>1. L!AnswersAreOfText OBVIOUS
  <1>2. \A s \in L!Live : s \in {entry} \union cleaning \union stray BY DEF L!Live
  <1>3. over => \A s \in Server : state[s] \in {"live", "closing"} => s \in stray
    BY DEF HelpersAssumption
  <1>4. QED BY <1>1, <1>2, <1>3 DEF L!ServersAreKnown

-----------------------------------------------------------------------------
(* Extraction of memories (MemoryExtraction), for any set of processes and *)
(* any length of the journal.                                              *)

InTask == {"st", "failures", "late", "lease", "holder"}
InThread == {"at", "on", "start", "running", "rerun", "timer", "called"}

\* The tables of the database and the threads of the processes.
QueueIsWhole ==
    /\ DOMAIN session = {"open", "generate", "enabled", "active", "turn"}
    /\ DOMAIN task = E!Boundaries /\ \A b \in E!Boundaries : DOMAIN task[b] = InTask
    /\ DOMAIN worker = Process
    /\ \A p \in Process : DOMAIN worker[p] = InThread /\ worker[p].on \in E!Boundaries
    /\ DOMAIN found = 1..MaxPieces /\ \A i \in 1..MaxPieces : found[i] \in 0..2

\* A task and its worker are about what the journal holds, as is the checkpoint.
PlacesAreWritten ==
    /\ journal \in Seq(BOOLEAN) /\ Len(journal) <= MaxPieces
    /\ checkpoint \in Nat /\ checkpoint <= Len(journal)
    /\ \A p \in Process : worker[p].on <= Len(journal)
    /\ \A b \in E!Boundaries : task[b].st # "none" => b <= Len(journal)

\* Nothing behind the checkpoint was committed before, unless it was put back.
CommittedBefore ==
    putBack \/ \A i \in 1..MaxPieces : found[i] <= 1 /\ (i > checkpoint => found[i] = 0)

SomeWork == \E b \in E!Boundaries : E!Unfinished(task[b])

Attended == worker[Home].running \/ worker[Home].timer \/ worker[Home].called

\* A session that generates nothing is disabled, and only a turn that will enqueue leaves work alone.
WorkIsAttended ==
    /\ ~session.generate => ~session.enabled
    /\ session.open /\ session.enabled /\ SomeWork /\ session.turn # "tracked" => Attended

QueueInv == QueueIsWhole /\ PlacesAreWritten /\ E!NothingSkipped /\ CommittedBefore
   /\ WorkIsAttended

USE DEF E!Boundaries, InTask, InThread

LEMMA QueueInit == ASSUME HelpersAssumption, E!Init PROVE QueueInv
  <1>1. QueueIsWhole
    BY DEF HelpersAssumption, E!Init, QueueIsWhole, E!NoTask, E!Idle
  <1>2. PlacesAreWritten
    BY DEF HelpersAssumption, E!Init, PlacesAreWritten, E!NoTask, E!Idle
  <1>3. E!NothingSkipped /\ CommittedBefore
    BY DEF HelpersAssumption, E!Init, E!NothingSkipped, CommittedBefore
  <1>4. ~SomeWork BY DEF E!Init, SomeWork, E!Unfinished, E!NoTask
  <1>5. WorkIsAttended BY <1>4 DEF E!Init, WorkIsAttended
  <1>6. QED BY <1>1, <1>2, <1>3, <1>5 DEF QueueInv

\* Steps that commit nothing.
LEMMA PiecesStay ==
    ASSUME E!NothingSkipped, CommittedBefore, UNCHANGED <<journal, checkpoint, found, putBack>>
    PROVE  E!NothingSkipped' /\ CommittedBefore'
  BY DEF E!NothingSkipped, CommittedBefore

\* Steps that write no journal: their tasks were there before, and the boundaries of their workers.
LEMMA PlacesStay ==
    ASSUME PlacesAreWritten, UNCHANGED <<journal, checkpoint>>,
           \A p \in Process : worker'[p].on = worker[p].on \/ worker'[p].on = 0
                              \/ (worker'[p].on \in E!Boundaries
                                 /\ task[worker'[p].on].st # "none"),
           \A b \in E!Boundaries : task'[b].st # "none" => task[b].st # "none"
    PROVE  PlacesAreWritten'
  BY DEF PlacesAreWritten

LEMMA WorkStays ==
    ASSUME WorkIsAttended, session' = session, SomeWork' => SomeWork, Attended => Attended'
    PROVE  WorkIsAttended'
  BY DEF WorkIsAttended

\* A task that changes its state, of those there are.
LEMMA WorkOfBefore ==
    ASSUME \A b \in E!Boundaries : E!Unfinished(task'[b]) => E!Unfinished(task[b])
    PROVE  SomeWork' => SomeWork
  BY DEF SomeWork

LEMMA TaskQueued ==
    ASSUME NEW t, DOMAIN t = InTask
    PROVE  /\ DOMAIN E!Queued(t) = InTask /\ E!Queued(t).st = "pending"
           /\ \A st : /\ DOMAIN [E!Queued(t) EXCEPT !.st = st] = InTask
                      /\ [E!Queued(t) EXCEPT !.st = st].st = st
  BY DEF E!Queued

\* The least of some boundaries.
LEMMA LeastBoundary ==
    ASSUME NEW S \in SUBSET Nat, S # {}
    PROVE  \E i \in S : \A j \in S : i <= j
  <1> DEFINE Below == OpToRel(<, Nat)
  <1>1. IsWellFoundedOn(Below, Nat) BY NatLessThanWellFounded
  <1> HIDE DEF Below
  <1>2. PICK i \in S : \A j \in S : ~(<<j, i>> \in Below) BY <1>1, WFMin
  <1>3. Below = {pair \in Nat \X Nat : pair[1] < pair[2]} BY Zenon DEF Below, OpToRel
  <1>4. ASSUME NEW j \in S, j < i PROVE FALSE
    <2>1. <<j, i>> \in Nat \X Nat /\ <<j, i>>[1] < <<j, i>>[2] BY <1>4
    <2>2. <<j, i>> \in {pair \in Nat \X Nat : pair[1] < pair[2]} BY <2>1, Zenon
    <2>3. QED BY <1>2, <1>3, <2>2, Zenon
  <1>5. QED BY <1>4

LEMMA NextPieceIsFirst ==
    ASSUME NEW from \in Nat, NEW boundary \in Nat
    PROVE  \/ E!NextPiece(from, boundary) = 0 /\ \A i \in from + 1 .. boundary : ~journal[i]
           \/ /\ E!NextPiece(from, boundary) \in from + 1 .. boundary
              /\ \A i \in from + 1 .. boundary : journal[i] => E!NextPiece(from, boundary) <= i
  <1> DEFINE piece == {i \in from + 1 .. boundary : journal[i]}
  <1>1. CASE piece = {} BY <1>1 DEF E!NextPiece
  <1>2. CASE piece # {}
    <2>0. piece \in SUBSET Nat OBVIOUS
    <2>1. \E i \in piece : \A j \in piece : i <= j
      <3> HIDE DEF piece
      <3>1. QED BY <1>2, <2>0, LeastBoundary
    <2>2. E!NextPiece(from, boundary) = CHOOSE i \in piece : \A j \in piece : i <= j
      BY <1>2 DEF E!NextPiece
    <2> HIDE DEF piece
    <2>3. E!NextPiece(from, boundary) \in piece /\ \A j \in piece : E!NextPiece(from, boundary) <= j
      BY <2>1, <2>2
    <2>4. QED BY <2>3 DEF piece
  <1>3. QED BY <1>1, <1>2

(* The steps of the session *)

LEMMA TurnBegins == ASSUME HelpersAssumption, QueueInv, E!BeginTurn PROVE QueueInv'
  <1> USE DEF QueueInv
  <1>0. PICK n : n = Len(journal) OBVIOUS
  <1>1. n \in Nat /\ n < MaxPieces /\ journal \in Seq(BOOLEAN)
    BY <1>0 DEF E!BeginTurn, PlacesAreWritten
  <1>2. PICK written : written = journal' OBVIOUS
  <1>3. /\ UNCHANGED <<checkpoint, found, worker, putBack>>
        /\ DOMAIN session' = {"open", "generate", "enabled", "active", "turn"}
        /\ session'.generate = session.generate /\ session'.enabled = session.enabled
        /\ session.generate => session'.turn = "tracked"
    BY DEF E!BeginTurn, QueueIsWhole
  <1>a. PICK bit \in BOOLEAN : bit = session.generate /\ written = Append(journal, bit)
    BY <1>2 DEF E!BeginTurn, WorkIsAttended
  <1>b. written \in Seq(BOOLEAN) /\ Len(written) = n + 1 /\ \A i \in 1..n : written[i] = journal[i]
    BY <1>0, <1>1, <1>a, AppendProperties
  <1>4. /\ DOMAIN task' = E!Boundaries
        /\ \A b \in E!Boundaries : DOMAIN task'[b] = InTask /\ (task'[b].st # "none"
           => task[b].st # "none")
    <2>1. \A b \in E!Boundaries : task'[b] = task[b] \/ (task[b].st = "running"
             /\ task'[b] = E!Queued(task[b]))
      BY DEF E!BeginTurn
    <2>2. \A b \in E!Boundaries : DOMAIN task[b] = InTask BY DEF QueueIsWhole
    <2>3. DOMAIN task' = E!Boundaries BY DEF E!BeginTurn
    <2>4. ASSUME NEW b \in E!Boundaries
          PROVE  DOMAIN task'[b] = InTask /\ (task'[b].st # "none" => task[b].st # "none")
      <3>1. CASE task'[b] = task[b] BY <2>2, <3>1
      <3>2. CASE task[b].st = "running" /\ task'[b] = E!Queued(task[b])
        <4>1. DOMAIN E!Queued(task[b]) = InTask BY <2>2, TaskQueued
        <4>2. QED BY <3>2, <4>1
      <3>3. QED BY <2>1, <3>1, <3>2
    <2>5. QED BY <2>3, <2>4
  <1>5. QueueIsWhole' BY <1>3, <1>4 DEF QueueIsWhole
  <1>6. PlacesAreWritten'
    <2>2. /\ checkpoint \in Nat /\ checkpoint <= n /\ MaxPieces \in Nat
          /\ \A p \in Process : worker[p].on <= n /\ worker[p].on \in Nat
          /\ \A b \in E!Boundaries : task[b].st # "none" => b <= n
      BY <1>0 DEF PlacesAreWritten, QueueIsWhole, HelpersAssumption
    <2>4. /\ n + 1 <= MaxPieces /\ checkpoint <= n + 1
          /\ \A p \in Process : worker[p].on <= n + 1
          /\ \A b \in E!Boundaries : task'[b].st # "none" => b <= n + 1
      BY <1>1, <1>4, <2>2
    <2>5. QED BY <1>2, <1>3, <1>b, <2>2, <2>4 DEF PlacesAreWritten
  <1>7. E!NothingSkipped'
    <2>1. \A i \in 1..checkpoint : i \in 1..n BY <1>0, <1>1 DEF PlacesAreWritten
    <2>2. \A i \in 1..checkpoint : journal'[i] = journal[i] BY <1>2, <1>b, <2>1
    <2>3. QED BY <1>3, <2>2 DEF E!NothingSkipped
  <1>8. CommittedBefore' BY <1>3 DEF CommittedBefore
  <1>9. WorkIsAttended' BY <1>3 DEF WorkIsAttended
  <1>10. QED BY <1>5, <1>6, <1>7, <1>8, <1>9

\* The steps that write and commit nothing.
LEMMA QueueGoesOn ==
    ASSUME QueueInv, UNCHANGED <<journal, checkpoint, found, putBack>>,
           DOMAIN session' = {"open", "generate", "enabled", "active", "turn"},
           DOMAIN task' = E!Boundaries, \A b \in E!Boundaries : DOMAIN task'[b] = InTask,
           DOMAIN worker' = Process,
           \A p \in Process : /\ DOMAIN worker'[p] = InThread
                              /\ worker'[p].on = worker[p].on
                                 \/ (worker'[p].on \in E!Boundaries
                                    /\ worker'[p].on <= Len(journal)),
           \A b \in E!Boundaries : task'[b].st # "none" => task[b].st # "none" \/ b = Len(journal),
           WorkIsAttended'
    PROVE  QueueInv'
  <1>1. E!NothingSkipped' /\ CommittedBefore' BY PiecesStay DEF QueueInv
  <1>2. QueueIsWhole' BY DEF QueueInv, QueueIsWhole
  <1>3. PlacesAreWritten'
    <2>1. PICK n : n = Len(journal) OBVIOUS
    <2>2. \A b \in E!Boundaries : task'[b].st # "none" => b <= n
      BY <2>1 DEF QueueInv, PlacesAreWritten
    <2>3. \A p \in Process : worker'[p].on <= n
      BY <2>1 DEF QueueInv, PlacesAreWritten
    <2>4. QED BY <2>1, <2>2, <2>3 DEF QueueInv, PlacesAreWritten
  <1>4. QED BY <1>1, <1>2, <1>3 DEF QueueInv

LEMMA HomeCalled ==
    ASSUME HelpersAssumption, QueueInv, E!StartWorker
    PROVE  /\ DOMAIN worker' = Process /\ Attended'
           /\ \A p \in Process : DOMAIN worker'[p] = InThread /\ worker'[p].on = worker[p].on
  BY DEF HelpersAssumption, QueueInv, QueueIsWhole, E!StartWorker, Attended

LEMMA TasksWhole ==
    ASSUME QueueInv
    PROVE  /\ DOMAIN session = {"open", "generate", "enabled", "active", "turn"}
           /\ DOMAIN task = E!Boundaries /\ DOMAIN worker = Process
           /\ \A b \in E!Boundaries : DOMAIN task[b] = InTask
           /\ \A p \in Process : DOMAIN worker[p] = InThread
  BY DEF QueueInv, QueueIsWhole

LEMMA TurnFinishes ==
    ASSUME HelpersAssumption, QueueInv, NEW completed \in BOOLEAN, E!FinishTurn(completed)
    PROVE  QueueInv'
  <1>0. UNCHANGED <<journal, checkpoint, found, putBack>> BY DEF E!FinishTurn
  <1>1. /\ DOMAIN session' = {"open", "generate", "enabled", "active", "turn"}
        /\ session'.generate = session.generate /\ session'.enabled = session.enabled
        /\ session'.open = session.open
    BY DEF QueueInv, QueueIsWhole, E!FinishTurn
  <1>2. task' = E!Enqueue(task, Len(journal)) \/ task' = task BY DEF E!FinishTurn
  <1>3. /\ DOMAIN task' = E!Boundaries
        /\ \A b \in E!Boundaries : /\ DOMAIN task'[b] = InTask
                                   /\ task'[b].st # "none" => task[b].st # "none"
                                      \/ b = Len(journal)
    <2>1. \A b \in E!Boundaries : DOMAIN task[b] = InTask BY TasksWhole
    <2>2. CASE task' = task BY <2>1, <2>2, TasksWhole
    <2>3. CASE task' = E!Enqueue(task, Len(journal))
      <3>1. DOMAIN task' = E!Boundaries BY <2>3 DEF E!Enqueue
      <3>2. ASSUME NEW b \in E!Boundaries
            PROVE  /\ DOMAIN task'[b] = InTask
                   /\ task'[b].st # "none" => task[b].st # "none" \/ b = Len(journal)
        <4>1. CASE E!Unfinished(task[b])
                      /\ task'[b] = [E!Queued(task[b]) EXCEPT !.st = "superseded"]
          BY <2>1, <4>1, TaskQueued DEF E!Unfinished
        <4>2. CASE b # Len(journal) /\ task'[b] = task[b] BY <2>1, <4>2
        <4>3. CASE b = Len(journal)
                      /\ task'[b] \in {task[b], [E!NoTask EXCEPT !.st = "pending"], [task[b] EXCEPT !.late = FALSE]}
          BY <2>1, <4>3 DEF E!NoTask
        <4>4. QED BY <2>3, <4>1, <4>2, <4>3 DEF E!Enqueue
      <3>3. QED BY <3>1, <3>2
    <2>4. QED BY <1>2, <2>2, <2>3
  <1>4. CASE session.turn = "tracked"
    <2>1. E!StartWorker BY <1>4 DEF E!FinishTurn
    <2>2. WorkIsAttended' BY <1>1, <2>1, HomeCalled DEF WorkIsAttended, QueueInv
    <2>4. QED BY <1>0, <1>1, <1>3, <2>1, <2>2, HomeCalled, QueueGoesOn
  <1>5. CASE session.turn # "tracked"
    <2>1. UNCHANGED <<task, worker>> BY <1>5 DEF E!FinishTurn
    <2>2. WorkIsAttended' BY <1>1, <1>5, <2>1 DEF WorkIsAttended, QueueInv, SomeWork, Attended
    <2>4. QED BY <1>0, <1>1, <1>3, <2>1, <2>2, TasksWhole, QueueGoesOn
  <1>6. QED BY <1>4, <1>5

LEMMA ForegroundLapses == ASSUME HelpersAssumption, QueueInv, E!ActivityLapses PROVE QueueInv'
  <1>1. /\ DOMAIN session' = {"open", "generate", "enabled", "active", "turn"}
        /\ session'.generate = session.generate /\ session'.enabled = session.enabled
        /\ session'.open = session.open /\ session'.turn = session.turn
        /\ UNCHANGED <<journal, task, checkpoint, found, worker, putBack>>
    BY TasksWhole DEF E!ActivityLapses
  <1>2. WorkIsAttended' BY <1>1 DEF WorkIsAttended, QueueInv, SomeWork, Attended
  <1>3. QED BY <1>1, <1>2, TasksWhole, QueueGoesOn

LEMMA GenerationOff == ASSUME HelpersAssumption, QueueInv, E!GenerateOff PROVE QueueInv'
  <1>1. /\ DOMAIN session' = {"open", "generate", "enabled", "active", "turn"} /\ ~session'.enabled
        /\ UNCHANGED <<journal, checkpoint, found, worker, putBack>> /\ DOMAIN task' = E!Boundaries
    BY TasksWhole DEF E!GenerateOff
  <1>2. ASSUME NEW b \in E!Boundaries
        PROVE  DOMAIN task'[b] = InTask /\ (task'[b].st # "none" => task[b].st # "none")
    <2>1. CASE E!Unfinished(task[b]) /\ task'[b] = [E!Queued(task[b]) EXCEPT !.st = "cancelled"]
      BY <2>1, TasksWhole, TaskQueued DEF E!Unfinished
    <2>2. CASE task'[b] = task[b] BY <2>2, TasksWhole
    <2>3. QED BY <2>1, <2>2 DEF E!GenerateOff
  <1>3. WorkIsAttended' BY <1>1 DEF WorkIsAttended
  <1>4. QED BY <1>1, <1>2, <1>3, TasksWhole, QueueGoesOn

LEMMA GenerationOn == ASSUME HelpersAssumption, QueueInv, E!GenerateOn PROVE QueueInv'
  <1>1. /\ DOMAIN session' = {"open", "generate", "enabled", "active", "turn"} /\ session'.generate
        /\ UNCHANGED <<journal, checkpoint, found, putBack>> /\ DOMAIN task' = E!Boundaries
        /\ E!StartWorker
    BY TasksWhole DEF E!GenerateOn
  <1>2. ASSUME NEW b \in E!Boundaries
        PROVE  DOMAIN task'[b] = InTask /\ (task'[b].st # "none" => task[b].st # "none")
    BY TasksWhole DEF E!GenerateOn
  <1>3. WorkIsAttended' BY <1>1, HomeCalled DEF WorkIsAttended
  <1>4. QED BY <1>1, <1>2, <1>3, HomeCalled, QueueGoesOn

LEMMA FailedAgain == ASSUME HelpersAssumption, QueueInv, E!Retry PROVE QueueInv'
  <1>1. /\ UNCHANGED <<journal, session, checkpoint, found, putBack>>
        /\ DOMAIN task' = E!Boundaries /\ E!StartWorker
    BY TasksWhole DEF E!Retry
  <1>2. ASSUME NEW b \in E!Boundaries
        PROVE  DOMAIN task'[b] = InTask /\ (task'[b].st # "none" => task[b].st # "none")
    BY TasksWhole DEF E!Retry, E!NoTask
  <1>3. WorkIsAttended' BY <1>1, HomeCalled DEF WorkIsAttended, QueueInv
  <1>4. QED BY <1>1, <1>2, <1>3, TasksWhole, HomeCalled, QueueGoesOn

LEMMA SessionLeaves == ASSUME HelpersAssumption, QueueInv, E!CloseSession \/ E!Crash PROVE QueueInv'
  <1>1. /\ DOMAIN session' = {"open", "generate", "enabled", "active", "turn"} /\ ~session'.open
        /\ session'.generate = session.generate /\ session'.enabled = session.enabled
        /\ UNCHANGED <<journal, task, checkpoint, found, putBack>>
        /\ DOMAIN worker' = Process
        /\ \A p \in Process : DOMAIN worker'[p] = InThread /\ worker'[p].on \in {worker[p].on, 0}
    <2>1. CASE E!CloseSession BY <2>1, TasksWhole DEF E!CloseSession
    <2>2. CASE E!Crash BY <2>2, TasksWhole DEF E!Crash, E!Idle
    <2>3. QED BY <2>1, <2>2
  <1>2. WorkIsAttended' BY <1>1 DEF WorkIsAttended, QueueInv
  <1>3. 0 \in E!Boundaries /\ 0 <= Len(journal) BY DEF QueueInv, PlacesAreWritten, HelpersAssumption
  <1>4. QED BY <1>1, <1>2, <1>3, TasksWhole, QueueGoesOn

LEMMA SessionResumes == ASSUME HelpersAssumption, QueueInv, E!Reopen PROVE QueueInv'
  <1>1. /\ DOMAIN session' = {"open", "generate", "enabled", "active", "turn"} /\ session'.generate
        /\ UNCHANGED <<journal, task, checkpoint, found, putBack>> /\ E!StartWorker
    BY TasksWhole DEF E!Reopen
  <1>2. WorkIsAttended' BY <1>1, HomeCalled DEF WorkIsAttended
  <1>3. QED BY <1>1, <1>2, TasksWhole, HomeCalled, QueueGoesOn

(* The threads of the processes *)

Goes(p) ==
    /\ DOMAIN worker' = Process /\ \A q \in Process : q # p => worker'[q] = worker[q]
    /\ DOMAIN worker'[p] = InThread
    /\ worker'[p].running = worker[p].running /\ worker'[p].timer = worker[p].timer
    /\ worker'[p].called = worker[p].called

LEMMA ThreadGoes ==
    ASSUME HelpersAssumption, QueueInv, NEW p \in Process, Goes(p),
           UNCHANGED <<journal, session, checkpoint, found, putBack>>,
           worker'[p].on = worker[p].on \/ (worker'[p].on \in E!Boundaries
              /\ task[worker'[p].on].st # "none"),
           DOMAIN task' = E!Boundaries,
           \A b \in E!Boundaries : /\ DOMAIN task'[b] = InTask
                                   /\ task'[b].st # "none" => task[b].st # "none"
                                   /\ E!Unfinished(task'[b]) => E!Unfinished(task[b])
    PROVE  QueueInv'
  <1>1. Attended => Attended' BY DEF Goes, Attended, HelpersAssumption
  <1>2. SomeWork' => SomeWork BY DEF SomeWork
  <1>3. WorkIsAttended' BY <1>1, <1>2, WorkStays DEF QueueInv
  <1>4. \A q \in Process : /\ DOMAIN worker'[q] = InThread
                           /\ worker'[q].on = worker[q].on
                              \/ (worker'[q].on \in E!Boundaries /\ worker'[q].on <= Len(journal))
    <2>1. \A b \in E!Boundaries : task[b].st # "none" => b <= Len(journal)
      BY DEF QueueInv, PlacesAreWritten
    <2>2. QED BY <2>1, TasksWhole DEF Goes
  <1>5. DOMAIN worker' = Process BY DEF Goes
  <1>6. QED BY <1>3, <1>4, <1>5, TasksWhole, QueueGoesOn

LEMMA ThreadStarts ==
    ASSUME HelpersAssumption, QueueInv, NEW p \in Process, E!WorkerStarts(p) \/ E!OtherLooks(p)
    PROVE  QueueInv'
  <1>1. UNCHANGED <<journal, session, task, checkpoint, found, putBack>>
    BY DEF E!WorkerStarts, E!OtherLooks
  <1>2. /\ DOMAIN worker' = Process /\ \A q \in Process : q # p => worker'[q] = worker[q]
        /\ DOMAIN worker'[p] = InThread /\ worker'[p].on \in {worker[p].on, 0}
        /\ p = Home /\ session.open => worker'[p].running
    <2>1. CASE E!WorkerStarts(p) BY <2>1, TasksWhole DEF E!WorkerStarts, E!Idle, E!Open
    <2>2. CASE E!OtherLooks(p) BY <2>2, TasksWhole DEF E!OtherLooks, E!Idle
    <2>3. QED BY <2>1, <2>2
  <1>3. session.open /\ Attended => Attended' BY <1>2 DEF Attended, HelpersAssumption
  <1>4. WorkIsAttended' BY <1>1, <1>3 DEF QueueInv, WorkIsAttended, SomeWork
  <1>5. 0 \in E!Boundaries /\ 0 <= Len(journal) BY DEF QueueInv, PlacesAreWritten, HelpersAssumption
  <1>6. \A q \in Process : DOMAIN worker'[q] = InThread /\ worker'[q].on \in {worker[q].on, 0}
    BY <1>2, TasksWhole
  <1>7. QED BY <1>1, <1>2, <1>4, <1>5, <1>6, TasksWhole, QueueGoesOn

LEMMA Sweeping ==
    ASSUME QueueInv
    PROVE  /\ DOMAIN E!Swept = E!Boundaries
           /\ \A b \in E!Boundaries : /\ DOMAIN E!Swept[b] = InTask
                                      /\ E!Swept[b].st # "none" => task[b].st # "none"
                                      /\ E!Unfinished(E!Swept[b]) => E!Unfinished(task[b])
  <1>1. DOMAIN E!Swept = E!Boundaries BY DEF E!Swept
  <1>2. ASSUME NEW b \in E!Boundaries
        PROVE  /\ DOMAIN E!Swept[b] = InTask
               /\ E!Swept[b].st # "none" => task[b].st # "none"
               /\ E!Unfinished(E!Swept[b]) => E!Unfinished(task[b])
    <2>1. PICK t : t = task[b] OBVIOUS
    <2>2. DOMAIN t = InTask BY <2>1, TasksWhole
    <2>3. E!Swept[b] = E!Expired(t) BY <2>1 DEF E!Swept
    <2>4. E!Expired(t) = t \/ (t.st = "running" /\ DOMAIN E!Expired(t) = InTask
             /\ E!Expired(t).st # "none")
      BY <2>2 DEF E!Expired, E!Queued
    <2>5. QED BY <2>1, <2>2, <2>3, <2>4 DEF E!Unfinished
  <1>3. QED BY <1>1, <1>2

LEMMA TaskClaimed ==
    ASSUME HelpersAssumption, QueueInv, NEW p \in Process, E!Claim(p)
    PROVE  QueueInv'
  <1>1. UNCHANGED <<journal, session, checkpoint, found, putBack>> BY DEF E!Claim
  <1>2. CASE worker' = [worker EXCEPT ![p].at = "rests"] /\ task' \in {E!Swept, task}
    <2>1. Goes(p) /\ worker'[p].on = worker[p].on BY <1>2, TasksWhole DEF Goes
    <2>2. /\ DOMAIN task' = E!Boundaries
          /\ \A b \in E!Boundaries : /\ DOMAIN task'[b] = InTask
                                     /\ task'[b].st # "none" => task[b].st # "none"
                                     /\ E!Unfinished(task'[b]) => E!Unfinished(task[b])
      BY <1>2, Sweeping, TasksWhole
    <2>3. QED BY <1>1, <2>1, <2>2, ThreadGoes
  <1>3. CASE E!Claimable(E!Swept) # {} /\ ~(worker' = [worker EXCEPT ![p].at = "rests"]
                /\ task' \in {E!Swept, task})
    <2>1. PICK b : /\ b = CHOOSE c \in E!Claimable(E!Swept) : \A d \in E!Claimable(E!Swept) : c <= d
                   /\ task' = [E!Swept EXCEPT ![b] = [@ EXCEPT !.st = "running", !.lease = "held", !.holder = p]]
                   /\ worker' = [worker EXCEPT ![p].at = "prepares", ![p].on = b, ![p].start = checkpoint]
      BY <1>3 DEF E!Claim
    <2>2. b \in E!Claimable(E!Swept)
      <3>1. E!Claimable(E!Swept) \in SUBSET Nat BY DEF E!Claimable, HelpersAssumption
      <3>2. \E c \in E!Claimable(E!Swept) : \A d \in E!Claimable(E!Swept) : c <= d
        BY <1>3, <3>1, LeastBoundary
      <3>3. QED BY <2>1, <3>2
    <2>3. b \in E!Boundaries /\ E!Swept[b].st = "pending" BY <2>2 DEF E!Claimable
    <2>4. Goes(p) /\ worker'[p].on = b BY <2>1, TasksWhole DEF Goes
    <2>5. task[b].st # "none" /\ E!Unfinished(task[b]) BY <2>3, Sweeping DEF E!Unfinished
    <2>6. /\ DOMAIN task' = E!Boundaries
          /\ DOMAIN task'[b] = InTask
          /\ \A c \in E!Boundaries : c # b => task'[c] = E!Swept[c]
      <3>1. PICK swept : swept = E!Swept OBVIOUS
      <3>2. DOMAIN swept = E!Boundaries /\ DOMAIN swept[b] = InTask BY <2>3, <3>1, Sweeping
      <3>3. task' = [swept EXCEPT ![b]
               = [@ EXCEPT !.st = "running", !.lease = "held", !.holder = p]]
        BY <2>1, <3>1
      <3>4. QED BY <2>3, <3>1, <3>2, <3>3
    <2>7. \A c \in E!Boundaries : /\ DOMAIN task'[c] = InTask
                                  /\ task'[c].st # "none" => task[c].st # "none"
                                  /\ E!Unfinished(task'[c]) => E!Unfinished(task[c])
      BY <2>5, <2>6, Sweeping
    <2>8. QED BY <1>1, <2>3, <2>4, <2>5, <2>6, <2>7, ThreadGoes
  <1>4. QED BY <1>2, <1>3 DEF E!Claim

LEMMA ThreadTurns ==
    ASSUME HelpersAssumption, QueueInv, NEW p \in Process, E!Prepare(p) \/ E!Obsolete(p)
              \/ E!LeavesObsolete(p) \/ E!Rests(p)
    PROVE  QueueInv'
  <1>1. UNCHANGED <<journal, session, task, checkpoint, found, putBack>>
    BY DEF E!Prepare, E!Obsolete, E!LeavesObsolete, E!Rests
  <1>2. Goes(p) /\ worker'[p].on = worker[p].on
    <2>1. CASE E!Prepare(p) BY <2>1, TasksWhole DEF E!Prepare, Goes
    <2>2. CASE E!Obsolete(p) BY <2>2, TasksWhole DEF E!Obsolete, Goes
    <2>3. CASE E!LeavesObsolete(p) BY <2>3, TasksWhole DEF E!LeavesObsolete, Goes
    <2>4. CASE E!Rests(p) BY <2>4, TasksWhole DEF E!Rests, Goes
    <2>5. QED BY <2>1, <2>2, <2>3, <2>4
  <1>3. QED BY <1>1, <1>2, TasksWhole, ThreadGoes

LEMMA TaskGivenUp ==
    ASSUME HelpersAssumption, QueueInv, NEW p \in Process, NEW t, DOMAIN t = InTask, E!Gives(p, t),
           UNCHANGED <<journal, session, checkpoint, found, putBack>>
    PROVE  QueueInv'
  <1>1. Goes(p) /\ worker'[p].on = worker[p].on BY TasksWhole DEF E!Gives, Goes
  <1>2. worker[p].on \in E!Boundaries BY DEF QueueInv, QueueIsWhole
  <1>3. /\ DOMAIN task' = E!Boundaries
        /\ \A b \in E!Boundaries : task'[b] = task[b] \/ (task[b].st = "running" /\ task'[b] = t)
    BY <1>2, TasksWhole DEF E!Gives
  <1>4. \A b \in E!Boundaries : /\ DOMAIN task'[b] = InTask
                                /\ task'[b].st # "none" => task[b].st # "none"
                                /\ E!Unfinished(task'[b]) => E!Unfinished(task[b])
    BY <1>3, TasksWhole DEF E!Unfinished
  <1>5. QED BY <1>1, <1>3, <1>4, ThreadGoes

LEMMA TaskReleased ==
    ASSUME HelpersAssumption, QueueInv, NEW p \in Process, E!Release(p) \/ E!AttemptFails(p)
    PROVE  QueueInv'
  <1>1. PICK t : t = task[worker[p].on] OBVIOUS
  <1>2. DOMAIN t = InTask
    <2>1. worker[p].on \in E!Boundaries BY DEF QueueInv, QueueIsWhole
    <2>2. QED BY <1>1, <2>1, TasksWhole
  <1>3. CASE E!Release(p)
    <2>1. \A x : DOMAIN [E!Queued(t) EXCEPT !.late = x] = InTask BY <1>2, TaskQueued
    <2>2. DOMAIN [E!Queued(t) EXCEPT !.late = E!Open(p)] = InTask BY <2>1, Zenon
    <2>3. E!Gives(p, [E!Queued(t) EXCEPT !.late = E!Open(p)]) BY <1>1, <1>3, Zenon DEF E!Release
    <2>4. UNCHANGED <<journal, session, checkpoint, found, putBack>> BY <1>3 DEF E!Release
    <2> DEFINE given == [E!Queued(t) EXCEPT !.late = E!Open(p)]
    <2> HIDE DEF given
    <2>5. DOMAIN given = InTask /\ E!Gives(p, given) BY <2>2, <2>3, Zenon DEF given
    <2>6. QED BY <2>4, <2>5, TaskGivenUp
  <1>4. CASE E!AttemptFails(p)
    <2>1. PICK given : given = [E!Queued(t) EXCEPT !.st = IF t.failures >= 2 THEN "failed"
             ELSE "pending",
                                                   !.failures = t.failures + 1, !.late = TRUE]
      OBVIOUS
    <2>2. DOMAIN given = InTask
      <3>1. PICK queued : queued = E!Queued(t) OBVIOUS
      <3>2. DOMAIN queued = InTask BY <1>2, <3>1, TaskQueued
      <3>3. QED BY <2>1, <3>1, <3>2
    <2>3. E!Gives(p, given) /\ UNCHANGED <<journal, session, checkpoint, found, putBack>>
      BY <1>1, <1>4, <2>1, Zenon DEF E!AttemptFails
    <2>4. QED BY <2>2, <2>3, TaskGivenUp
  <1>5. QED BY <1>3, <1>4

LEMMA ThreadEnds == ASSUME HelpersAssumption, QueueInv, NEW p \in Process, E!Ends(p) PROVE QueueInv'
  <1>1. UNCHANGED <<journal, session, task, checkpoint, found, putBack>> BY DEF E!Ends
  <1>2. PICK later : later = E!Schedules(p) OBVIOUS
  <1>3. worker' = [worker EXCEPT ![p]
           = [E!Idle EXCEPT !.timer = later, !.called = worker[p].called]]
    BY <1>2, Zenon DEF E!Ends
  <1>4. /\ DOMAIN worker' = Process /\ \A q \in Process : q # p => worker'[q] = worker[q]
        /\ DOMAIN worker'[p] = InThread /\ worker'[p].on = 0 /\ worker'[p].timer = later
    BY <1>3, TasksWhole DEF E!Idle
  <1>5. p = Home /\ session.open /\ session.enabled /\ SomeWork => later
    BY <1>2 DEF E!Schedules, E!LeavesTimer, E!Open, SomeWork
  <1>6. session.open /\ session.enabled /\ SomeWork /\ Attended => Attended'
    BY <1>4, <1>5 DEF Attended, HelpersAssumption
  <1>7. WorkIsAttended' BY <1>1, <1>6 DEF QueueInv, WorkIsAttended, SomeWork
  <1>8. 0 \in E!Boundaries /\ 0 <= Len(journal) BY DEF QueueInv, PlacesAreWritten, HelpersAssumption
  <1>9. \A q \in Process : DOMAIN worker'[q] = InThread /\ worker'[q].on \in {worker[q].on, 0}
    BY <1>4, TasksWhole
  <1>10. QED BY <1>1, <1>4, <1>7, <1>8, <1>9, TasksWhole, QueueGoesOn

LEMMA TimePasses ==
    ASSUME HelpersAssumption, QueueInv, NEW b \in E!Boundaries, E!Due(b) \/ E!LeaseExpires(b)
    PROVE  QueueInv'
  <1>1. UNCHANGED <<journal, session, checkpoint, found, worker, putBack>>
    BY DEF E!Due, E!LeaseExpires
  <1>2. /\ DOMAIN task' = E!Boundaries /\ DOMAIN task'[b] = InTask /\ task'[b].st = task[b].st
        /\ \A c \in E!Boundaries : c # b => task'[c] = task[c]
    BY TasksWhole DEF E!Due, E!LeaseExpires
  <1>3. \A c \in E!Boundaries : /\ DOMAIN task'[c] = InTask
                                /\ task'[c].st # "none" => task[c].st # "none"
                                /\ E!Unfinished(task'[c]) => E!Unfinished(task[c])
    BY <1>2, TasksWhole DEF E!Unfinished
  <1>4. Goes(Home) BY <1>1, TasksWhole DEF Goes, HelpersAssumption
  <1>5. QED BY <1>1, <1>2, <1>3, <1>4, ThreadGoes DEF HelpersAssumption

\* What is committed is the first piece of those not yet extracted, or that there is none.
LEMMA CommitGoesOn ==
    ASSUME HelpersAssumption, QueueInv, NEW p \in Process, NEW start, NEW end \in Nat,
              NEW piece \in {0, end},
           E!CommitAt(p, start, end, piece), end <= worker[p].on,
           start = checkpoint => \A i \in checkpoint + 1 .. end : journal[i] => i = piece,
           start = checkpoint /\ piece # 0 => piece > checkpoint
    PROVE  QueueInv'
  <1>1. UNCHANGED <<journal, session>> BY DEF E!CommitAt
  <1>2. CASE ~(E!Ready(p) /\ checkpoint = start)
    <2>1. worker' = [worker EXCEPT ![p].at = "claims"]
             /\ UNCHANGED <<task, checkpoint, found, putBack>>
      BY <1>2 DEF E!CommitAt
    <2>2. Goes(p) /\ worker'[p].on = worker[p].on BY <2>1, TasksWhole DEF Goes
    <2>3. QED BY <1>1, <2>1, <2>2, TasksWhole, ThreadGoes
  <1>3. CASE E!Ready(p) /\ checkpoint = start
    <2>1. /\ checkpoint' = end /\ putBack' = (putBack \/ end < checkpoint)
          /\ found' = IF piece = 0 THEN found
             ELSE [found EXCEPT ![piece] = IF @ < 2 THEN @ + 1 ELSE 2]
          /\ task' = IF end = worker[p].on THEN [task EXCEPT ![worker[p].on]
             = [E!Queued(@) EXCEPT !.st = "done"]]
                     ELSE task
          /\ worker' = [worker EXCEPT ![p].at = IF end = worker[p].on THEN "claims" ELSE "prepares"]
      BY <1>3 DEF E!CommitAt
    <2>2. /\ worker[p].on \in E!Boundaries /\ worker[p].on <= Len(journal)
          /\ task[worker[p].on].st = "running"
          /\ DOMAIN task[worker[p].on] = InTask
      BY <1>3, TasksWhole DEF QueueInv, QueueIsWhole, PlacesAreWritten, E!Ready
    <2>3. Goes(p) /\ worker'[p].on = worker[p].on
      <3>1. PICK next : next = IF end = worker[p].on THEN "claims" ELSE "prepares" OBVIOUS
      <3>2. worker' = [worker EXCEPT ![p].at = next] BY <2>1, <3>1
      <3>3. QED BY <3>2, TasksWhole DEF Goes
    <2>4. /\ DOMAIN task' = E!Boundaries
          /\ \A b \in E!Boundaries : /\ DOMAIN task'[b] = InTask
                                     /\ task'[b].st # "none" => task[b].st # "none"
                                     /\ E!Unfinished(task'[b]) => E!Unfinished(task[b])
      <3>1. CASE end # worker[p].on BY <2>1, <3>1, TasksWhole
      <3>2. CASE end = worker[p].on
        <4>1. PICK t : t = [E!Queued(task[worker[p].on]) EXCEPT !.st = "done"] OBVIOUS
        <4>2. DOMAIN t = InTask /\ t.st = "done" BY <2>2, <4>1, TaskQueued
        <4>3. task' = [task EXCEPT ![worker[p].on] = t] BY <2>1, <3>2, <4>1
        <4>4. \A b \in E!Boundaries : task'[b] = task[b] \/ (b = worker[p].on /\ task'[b] = t)
          BY <2>2, <4>3, TasksWhole
        <4>5. QED BY <2>2, <4>2, <4>3, <4>4, TasksWhole DEF E!Unfinished
      <3>3. QED BY <3>1, <3>2
    <2>5. piece \in Nat /\ MaxPieces \in Nat /\ end <= MaxPieces /\ checkpoint \in Nat
      BY <2>2 DEF HelpersAssumption, QueueInv, PlacesAreWritten
    <2>6. /\ DOMAIN found = 1..MaxPieces /\ \A i \in 1..MaxPieces : found[i] \in 0..2
      BY DEF QueueInv, QueueIsWhole
    <2>7. /\ DOMAIN found' = 1..MaxPieces
          /\ \A i \in 1..MaxPieces : /\ found'[i] \in 0..2 /\ found'[i] >= found[i]
                                     /\ i # piece => found'[i] = found[i]
                                     /\ i = piece => found'[i] >= 1 /\ (found[i] = 0
                                        => found'[i] = 1)
      BY <2>1, <2>5, <2>6
    <2>8. QueueIsWhole'
      <3>1. \A q \in Process : DOMAIN worker'[q] = InThread /\ worker'[q].on \in E!Boundaries
        BY <2>2, <2>3 DEF Goes, QueueInv, QueueIsWhole
      <3>2. QED BY <1>1, <2>3, <2>4, <2>7, <3>1, TasksWhole DEF Goes, QueueIsWhole
    <2>9. PlacesAreWritten'
      <3>1. end <= Len(journal) BY <2>2, <2>5 DEF QueueInv, PlacesAreWritten
      <3>2. \A q \in Process : worker'[q].on <= Len(journal)
        BY <2>3 DEF Goes, QueueInv, PlacesAreWritten
      <3>3. \A b \in E!Boundaries : task'[b].st # "none" => b <= Len(journal)
        BY <2>4 DEF QueueInv, PlacesAreWritten
      <3>4. QED BY <1>1, <2>1, <2>5, <3>1, <3>2, <3>3 DEF QueueInv, PlacesAreWritten
    <2>10. E!NothingSkipped'
      <3>1. ASSUME NEW i \in 1..end, journal[i] PROVE found'[i] >= 1
        <4>1. i \in 1..MaxPieces BY <2>5
        <4>2. CASE i <= checkpoint
          <5>1. found[i] >= 1 BY <2>5, <3>1, <4>2 DEF QueueInv, E!NothingSkipped
          <5>2. QED BY <2>6, <2>7, <4>1, <5>1
        <4>3. CASE i > checkpoint
          <5>1. i = piece BY <1>3, <2>5, <3>1, <4>3
          <5>2. QED BY <2>7, <4>1, <5>1
        <4>4. QED BY <2>5, <4>2, <4>3
      <3>2. QED BY <1>1, <2>1, <3>1 DEF E!NothingSkipped
    <2>11. CommittedBefore'
      <3>1. CASE putBack \/ end < checkpoint BY <2>1, <3>1 DEF CommittedBefore
      <3>2. CASE ~putBack /\ end >= checkpoint
        <4>1. \A i \in 1..MaxPieces : found[i] <= 1 /\ (i > checkpoint => found[i] = 0)
          BY <3>2 DEF QueueInv, CommittedBefore
        <4>2. ASSUME NEW i \in 1..MaxPieces PROVE found'[i] <= 1 /\ (i > end => found'[i] = 0)
          <5>1. CASE i # piece BY <2>5, <2>7, <3>2, <4>1, <5>1
          <5>2. CASE i = piece BY <1>3, <2>5, <2>7, <4>1, <5>2
          <5>3. QED BY <5>1, <5>2
        <4>3. QED BY <2>1, <4>2 DEF CommittedBefore
      <3>3. QED BY <2>5, <3>1, <3>2
    <2>12. WorkIsAttended'
      <3>1. Attended => Attended' BY <2>3 DEF Goes, Attended, HelpersAssumption
      <3>2. SomeWork' => SomeWork BY <2>4 DEF SomeWork
      <3>3. QED BY <1>1, <3>1, <3>2, WorkStays DEF QueueInv
    <2>13. QED BY <2>8, <2>9, <2>10, <2>11, <2>12 DEF QueueInv
  <1>4. QED BY <1>2, <1>3

LEMMA PieceCommitted ==
    ASSUME HelpersAssumption, QueueInv, NEW p \in Process, E!Complete(p) \/ E!Answered(p)
    PROVE  QueueInv'
  <1>1. checkpoint \in Nat /\ worker[p].on \in Nat
    BY DEF QueueInv, QueueIsWhole, PlacesAreWritten, HelpersAssumption
  <1>2. CASE E!Complete(p)
    <2>1. E!CommitAt(p, checkpoint, worker[p].on, 0) BY <1>2 DEF E!Complete, E!Commit
    <2>2. E!NextPiece(checkpoint, worker[p].on) = 0 BY <1>2 DEF E!Complete
    <2>3. \A i \in checkpoint + 1 .. worker[p].on : ~journal[i] BY <1>1, <2>2, NextPieceIsFirst
    <2>4. QED BY <1>1, <2>1, <2>3, CommitGoesOn
  <1>3. CASE E!Answered(p)
    <2>1. PICK start : start = worker[p].start OBVIOUS
    <2>2. PICK i : i = E!NextPiece(start, worker[p].on) OBVIOUS
    <2>3. E!CommitAt(p, start, i, i) BY <1>3, <2>1, <2>2 DEF E!Answered, E!Commit
    <2>4. CASE start # checkpoint
      <3>1. UNCHANGED <<journal, session, task, checkpoint, found, putBack>>
               /\ worker' = [worker EXCEPT ![p].at = "claims"]
        BY <2>3, <2>4 DEF E!CommitAt
      <3>2. Goes(p) /\ worker'[p].on = worker[p].on BY <3>1, TasksWhole DEF Goes
      <3>3. QED BY <3>1, <3>2, TasksWhole, ThreadGoes
    <2>5. CASE start = checkpoint
      <3>1. \/ i = 0 /\ \A j \in start + 1 .. worker[p].on : ~journal[j]
            \/ /\ i \in start + 1 .. worker[p].on
               /\ \A j \in start + 1 .. worker[p].on : journal[j] => i <= j
        BY <1>1, <2>2, <2>5, NextPieceIsFirst
      <3>2. i \in Nat /\ i <= worker[p].on /\ (i # 0 => i > checkpoint) BY <1>1, <2>5, <3>1
      <3>3. \A j \in checkpoint + 1 .. i : journal[j] => j = i BY <1>1, <2>5, <3>1, <3>2
      <3>4. QED BY <2>3, <3>2, <3>3, CommitGoesOn
    <2>6. QED BY <2>4, <2>5
  <1>4. QED BY <1>2, <1>3

LEMMA QueueSteps == ASSUME HelpersAssumption, QueueInv, E!Next PROVE QueueInv'
  <1>1. CASE E!SessionSteps
    BY <1>1, TurnBegins, TurnFinishes, GenerationOff, GenerationOn, FailedAgain, SessionLeaves,
       SessionResumes
    DEF E!SessionSteps
  <1>2. CASE E!ActivityLapses BY <1>2, ForegroundLapses
  <1>3. ASSUME NEW p \in Process, E!WorkerSteps(p) PROVE QueueInv'
    BY <1>3, ThreadStarts, TaskClaimed, ThreadTurns, PieceCommitted, TaskReleased, ThreadEnds
    DEF E!WorkerSteps
  <1>4. ASSUME NEW p \in Process, E!OtherLooks(p) \/ E!AttemptFails(p) PROVE QueueInv'
    BY <1>4, ThreadStarts, TaskReleased
  <1>5. ASSUME NEW b \in E!Boundaries, E!Due(b) \/ E!LeaseExpires(b) PROVE QueueInv'
    BY <1>5, TimePasses
  <1>6. QED BY <1>1, <1>2, <1>3, <1>4, <1>5 DEF E!Next

LEMMA QueueIsSafe ==
    ASSUME HelpersAssumption, QueueInv PROVE E!NothingSkipped /\ E!ExtractedOnce /\ E!WorkIsKept
  <1>1. E!ExtractedOnce BY DEF QueueInv, CommittedBefore, E!ExtractedOnce
  <1>2. E!WorkIsKept BY DEF QueueInv, WorkIsAttended, SomeWork, Attended, E!WorkIsKept
  <1>3. QED BY <1>1, <1>2 DEF QueueInv

-----------------------------------------------------------------------------
(* Whichever part moves.                                                   *)

\* Each part, while it is the one that moves.
HelpersInv ==
    /\ part \in {"agents", "jobs", "mcp", "extraction", "language"}
    /\ part = "agents" => TeamInv
    /\ part = "jobs" => ShellInv
    /\ part = "mcp" => ServersInv
    /\ part = "extraction" => QueueInv
    /\ part = "language" => LanguageInv

helpers == <<part, team, shells, servers, queue, language>>

LEMMA TeamRests == ASSUME TeamInv, UNCHANGED team PROVE TeamInv'
  BY DEF team, TeamInv, TeamIsWhole, QueuedOnce, RunsAreOfAgents, RunsAreInPlace, ClosedAreGone,
         WorkersAlone, A!FollowupsAreTaken, A!WorkersAreIsolated, A!Waits

LEMMA ShellsRest == ASSUME ShellInv, UNCHANGED shells PROVE ShellInv'
  BY DEF shells, ShellInv, JobsAreWhole, JobsBegin, JobsAreWatched, ClosingIsKept

LEMMA ServersRest == ASSUME ServersInv, UNCHANGED servers PROVE ServersInv'
  BY DEF servers, ServersInv, ServersAreWhole, WorkersAreApart, CallersWait, M!ListedIsConnected,
         M!LockIsHeldToConnect

LEMMA QueueRests == ASSUME QueueInv, UNCHANGED queue PROVE QueueInv'
  BY DEF queue, QueueInv, QueueIsWhole, PlacesAreWritten, E!NothingSkipped, CommittedBefore,
         WorkIsAttended, SomeWork, Attended

LEMMA LanguageRests == ASSUME LanguageInv, UNCHANGED language PROVE LanguageInv'
  BY DEF language, LanguageInv, DocumentsAreWhole, ServiceIsWhole, TextsAreTexts, TextsAreNumbered,
         Known, QuestionIsSent, L!AnswersAreOfText, ServersAreKept

LEMMA HelpersBegin == MCInit => HelpersInv
  BY HelpersAssumption, TeamInit, ShellInit, ServersInit, QueueInit, LanguageInit
  DEF MCInit, HelpersInv

LEMMA HelpersGoOn == HelpersInv /\ [MCNext]_helpers => HelpersInv'
  <1> SUFFICES ASSUME HelpersInv, [MCNext]_helpers PROVE HelpersInv'
    OBVIOUS
  <1>1. CASE Agents
    <2>1. part = "agents" /\ part' = part /\ TeamInv /\ A!Next
      BY <1>1 DEF Agents, HelpersInv
    <2> QED  BY <2>1, HelpersAssumption, TeamSteps DEF HelpersInv
  <1>2. CASE Jobs
    <2>1. part = "jobs" /\ part' = part /\ ShellInv /\ J!Next
      BY <1>2 DEF Jobs, HelpersInv
    <2> QED  BY <2>1, ShellSteps DEF HelpersInv
  <1>3. CASE Mcp
    <2>1. part = "mcp" /\ part' = part /\ ServersInv /\ M!Next
      BY <1>3 DEF Mcp, HelpersInv
    <2> QED  BY <2>1, ServersStep DEF HelpersInv
  <1>4. CASE Extraction
    <2>1. part = "extraction" /\ part' = part /\ QueueInv /\ E!Next
      BY <1>4 DEF Extraction, HelpersInv
    <2> QED  BY <2>1, HelpersAssumption, QueueSteps DEF HelpersInv
  <1>5. CASE Language
    <2>1. part = "language" /\ part' = part /\ LanguageInv /\ L!Next
      BY <1>5 DEF Language, HelpersInv
    <2> QED  BY <2>1, HelpersAssumption, LanguageSteps DEF HelpersInv
  <1>6. CASE UNCHANGED helpers
    <2>1. UNCHANGED <<part, team, shells, servers, queue, language>>
      BY <1>6 DEF helpers
    <2> QED
      BY <2>1, TeamRests, ShellsRest, ServersRest, QueueRests, LanguageRests DEF HelpersInv
  <1> QED  BY <1>1, <1>2, <1>3, <1>4, <1>5, <1>6 DEF MCNext

LEMMA HelpersAreSafe == HelpersInv => HelpersKeepTheirWord
  <1>1. TeamInv => A!FollowupsAreTaken /\ A!RunsAreKnown /\ A!WorkersAreIsolated /\ A!OneOwner
    BY HelpersAssumption, TeamIsSafe
  <1>2. ShellInv => J!LeaseCoversProcesses /\ J!NoStrayLease /\ J!ClosedIsEmpty
    BY ShellIsSafe
  <1>3. ServersInv => M!ListedIsConnected /\ M!LockIsHeldToConnect
    BY DEF ServersInv
  <1>4. QueueInv => E!NothingSkipped /\ E!ExtractedOnce /\ E!WorkIsKept
    BY HelpersAssumption, QueueIsSafe
  <1>5. LanguageInv => L!AnswersAreOfText /\ L!ServersAreKnown
    BY HelpersAssumption, LanguageIsSafe
  <1> QED  BY <1>1, <1>2, <1>3, <1>4, <1>5 DEF HelpersInv, HelpersKeepTheirWord

\* AgentCoordinator, ShellJobManager, McpClientManager, LspService and ExtractionQueue: whatever
\* agents, jobs, servers, processes and limits there are, a follow-up is taken up and a run known,
\* workers are apart, a lease lasts as long as the processes of its job, what is listed is
\* connected, an answer is about the text it was asked of, and the journal is extracted without
\* gaps, by somebody.
THEOREM HelpersAreKept == MCSpec => []HelpersKeepTheirWord
  <1>1. MCInit => HelpersInv
    BY HelpersBegin
  <1>2. HelpersInv /\ [MCNext]_helpers => HelpersInv'
    BY HelpersGoOn
  <1>3. HelpersInv => HelpersKeepTheirWord
    BY HelpersAreSafe
  <1> QED  BY <1>1, <1>2, <1>3, PTL DEF MCSpec, helpers

=============================================================================
