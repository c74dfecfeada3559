--------------------------- MODULE MCBridge_proofs ---------------------------
(***************************************************************************)
(* The bridge of a session: its threads, those that ask the user, and the  *)
(* files attached to messages, for every number of requests, of            *)
(* constructions and of threads that ask.                                  *)
(***************************************************************************)
EXTENDS MCBridge, FiniteSetTheorems, TLAPS

parts == <<part, vars, asking, attaching>>

-----------------------------------------------------------------------------
(* Approvals and questions (BridgeInteractions).                           *)

\* Finitely many threads ask, and 0 is none of them.
Askers == IsFiniteSet(Asker) /\ 0 \notin Asker /\ MaxAsked \in Nat

\* The stages from the lock on, and those with an interaction.
Presenting == {"check", "open", "announce", "wait", "withdraw", "return"}
Asked == {"announce", "wait", "withdraw", "return"}
Coming == {a \in Asker : stage[a] \in {"lock", "check", "open"}}

AskTypes ==
    /\ stage \in [Asker -> {"idle", "lock"} \cup Presenting] /\ asks \in [Asker -> Nat]
    /\ counter \in Nat /\ pending \subseteq 1 .. counter
    /\ result \in [I!Id -> I!Answer \cup {"none"}] /\ given \in [I!Id -> SUBSET I!Answer]
    /\ granted \subseteq {0} \cup I!Id
    /\ view \in Nat /\ late \in 0 .. counter /\ closed \in BOOLEAN /\ allowed \in BOOLEAN

\* Whoever is on the way to an interaction will find a number for it.
Numbered == counter + Cardinality(Coming) <= MaxAsked

\* The lock belongs to the one asker that presents something, from its check to the return.
OnePresents == \A a \in Asker : stage[a] \in Presenting <=> holder = a

\* An interaction has a number that was given out, and is pending until its asker wakes.
Opened ==
    \A a \in Asker :
        /\ stage[a] \in Asked => asks[a] \in 1 .. counter
        /\ stage[a] \in {"announce", "wait"} => asks[a] \in pending

\* What was answered and not yet announced has woken its asker: it cannot take an interaction off
\* the display that still waits.
LateIsWoken ==
    \A a \in Asker : stage[a] \in {"announce", "wait"} /\ late = asks[a] => late \in woken

\* Every decision but a denial was given by the user, and so was every rule.
Decided ==
    /\ \A i \in I!Id : I!Approves(i) => result[i] \in given[i]
    /\ allowed => \E i \in I!Id : "persist" \in given[i]

\* What is on display belongs to an asker that has announced it and not returned.
Displayed ==
    ~closed /\ view # 0 => \E a \in Asker : stage[a] \in Asked \ {"announce"} /\ view = asks[a]

AskInv ==
    /\ AskTypes /\ Numbered /\ OnePresents /\ Opened /\ LateIsWoken /\ Decided /\ Displayed
    /\ I!ApprovedByUser /\ I!WaitingIsShown

LEMMA ComingIsFinite ==
    ASSUME Askers PROVE IsFiniteSet(Coming) /\ Cardinality(Coming) \in Nat
  <1>1. Coming \subseteq Asker
    BY DEF Coming
  <1> QED  BY <1>1, FS_Subset, FS_CardinalityType DEF Askers

LEMMA SameCounting ==
    ASSUME NEW S PROVE I!Cardinality(S) = Cardinality(S)
  BY DEF I!Cardinality, Cardinality

LEMMA AskInitially == ASSUME Askers, I!Init PROVE AskInv
  <1>1. Coming = {}
    BY DEF I!Init, Coming
  <1>2. Numbered
    BY <1>1, FS_EmptySet DEF I!Init, Numbered, Askers
  <1>3. AskTypes
    <2>1. pending \subseteq 1 .. counter /\ late \in 0 .. counter
      BY DEF I!Init
    <2> QED  BY <2>1 DEF I!Init, AskTypes, I!Answer
  <1>4. OnePresents
    BY DEF I!Init, OnePresents, Presenting, Askers
  <1>5. Opened /\ LateIsWoken /\ Decided /\ Displayed
    BY DEF I!Init, Opened, LateIsWoken, Decided, Displayed, Asked, I!Approves
  <1>6. I!ApprovedByUser /\ I!WaitingIsShown
    BY DEF I!Init, I!ApprovedByUser, I!WaitingIsShown
  <1> QED  BY <1>2, <1>3, <1>4, <1>5, <1>6 DEF AskInv

\* How many are on their way after a step.
LEMMA ComingSteps ==
    ASSUME Askers, NEW a \in Asker, \A b \in Asker \ {a} : stage'[b] = stage[b]
    PROVE  /\ (a \in Coming <=> a \in Coming') => Cardinality(Coming') = Cardinality(Coming)
           /\ a \in Coming /\ a \notin Coming' => Cardinality(Coming') = Cardinality(Coming) - 1
           /\ a \notin Coming /\ a \in Coming' => Cardinality(Coming') = Cardinality(Coming) + 1
           /\ Cardinality(Coming) \in Nat
  <1>1. IsFiniteSet(Coming) /\ Cardinality(Coming) \in Nat
    BY ComingIsFinite
  <1>2. Coming' = IF a \in Coming' THEN Coming \cup {a} ELSE Coming \ {a}
    BY DEF Coming
  <1>3. Cardinality(Coming \cup {a}) = IF a \in Coming THEN Cardinality(Coming)
                                       ELSE Cardinality(Coming) + 1
    BY <1>1, FS_AddElement
  <1>4. Cardinality(Coming \ {a}) = IF a \in Coming THEN Cardinality(Coming) - 1
                                    ELSE Cardinality(Coming)
    BY <1>1, FS_RemoveElement
  <1> QED  BY <1>1, <1>2, <1>3, <1>4

LEMMA AskInductive == ASSUME Askers PROVE AskInv /\ [I!Next]_(I!vars) => AskInv'
  <1> SUFFICES ASSUME AskInv, [I!Next]_(I!vars) PROVE AskInv'
    OBVIOUS
  <1> USE DEF AskInv, I!Step
  <1>1. ASSUME NEW a \in Asker, I!Request(a) PROVE AskInv'
    <2>1. CASE allowed /\ granted' = granted \cup {0} /\ UNCHANGED stage
      BY <1>1, <2>1 DEF I!Request, AskTypes, Numbered, Coming, OnePresents, Opened, LateIsWoken,
        Decided, Displayed, I!ApprovedByUser, I!WaitingIsShown, I!Approves
    <2>2. CASE I!Step(a, "lock") /\ UNCHANGED granted
      <3>1. /\ a \notin Coming /\ stage[a] = "idle" /\ a \in Coming'
            /\ \A b \in Asker \ {a} : stage'[b] = stage[b]
        BY <1>1, <2>2 DEF I!Request, Coming, AskTypes
      <3>2. Numbered'
        <4>1. Cardinality(Coming') = Cardinality(Coming) + 1 /\ Cardinality(Coming) \in Nat
          BY <3>1, ComingSteps
        <4>2. counter + Cardinality(Coming) < MaxAsked
          BY <1>1, SameCounting DEF I!Request, Coming
        <4> QED  BY <1>1, <4>1, <4>2 DEF I!Request, Numbered, AskTypes, Askers
      <3> QED
        BY <1>1, <2>2, <3>1, <3>2 DEF I!Request, AskTypes, OnePresents, Opened, LateIsWoken, Asked,
          Presenting, Decided, Displayed, I!ApprovedByUser, I!WaitingIsShown, I!Approves
    <2> QED  BY <1>1, <2>1, <2>2 DEF I!Request
  <1>2. ASSUME NEW a \in Asker, I!Present(a) PROVE AskInv'
    <2>1. Numbered'
      <3>1. /\ a \in Coming /\ a \in Coming'
            /\ \A b \in Asker \ {a} : stage'[b] = stage[b]
        BY <1>2 DEF I!Present, Coming, AskTypes
      <3>2. Cardinality(Coming') = Cardinality(Coming)
        BY <3>1, ComingSteps
      <3> QED  BY <1>2, <3>2 DEF I!Present, Numbered
    <2> QED
      BY <1>2, <2>1 DEF I!Present, AskTypes, OnePresents, Opened, LateIsWoken, Asked, Askers,
        Presenting, Decided, Displayed, I!ApprovedByUser, I!WaitingIsShown, I!Approves
  <1>3. ASSUME NEW a \in Asker, I!GiveUp(a) PROVE AskInv'
    <2>1. Numbered'
      <3>1. /\ a \in Coming /\ a \notin Coming'
            /\ \A b \in Asker \ {a} : stage'[b] = stage[b]
        BY <1>3 DEF I!GiveUp, Coming, AskTypes
      <3>2. Cardinality(Coming') = Cardinality(Coming) - 1 /\ Cardinality(Coming) \in Nat
        BY <3>1, ComingSteps
      <3> QED  BY <1>3, <3>2 DEF I!GiveUp, Numbered, AskTypes, Askers
    <2> QED
      BY <1>3, <2>1 DEF I!GiveUp, AskTypes, OnePresents, Opened, LateIsWoken, Asked, Askers,
        Presenting, Decided, Displayed, I!ApprovedByUser, I!WaitingIsShown, I!Approves
  <1>4. ASSUME NEW a \in Asker, I!Check(a) PROVE AskInv'
    <2>1. Numbered'
      <3>1. /\ a \in Coming /\ a \in Coming'
            /\ \A b \in Asker \ {a} : stage'[b] = stage[b]
        BY <1>4 DEF I!Check, Coming, AskTypes
      <3>2. Cardinality(Coming') = Cardinality(Coming)
        BY <3>1, ComingSteps
      <3> QED  BY <1>4, <3>2 DEF I!Check, Numbered
    <2> QED
      BY <1>4, <2>1 DEF I!Check, AskTypes, OnePresents, Opened, LateIsWoken, Asked,
        Presenting, Decided, Displayed, I!ApprovedByUser, I!WaitingIsShown, I!Approves
  <1>5. ASSUME NEW a \in Asker, I!Open(a) PROVE AskInv'
    <2>1. Numbered'
      <3>1. /\ a \in Coming /\ a \notin Coming'
            /\ \A b \in Asker \ {a} : stage'[b] = stage[b]
        BY <1>5 DEF I!Open, Coming, AskTypes
      <3>2. Cardinality(Coming') = Cardinality(Coming) - 1 /\ Cardinality(Coming) \in Nat
        BY <3>1, ComingSteps
      <3> QED  BY <1>5, <3>2 DEF I!Open, Numbered, AskTypes, Askers
    <2>2. counter' \in Nat /\ counter' = counter + 1 /\ pending' \subseteq 1 .. counter'
      BY <1>5 DEF I!Open, AskTypes
    <2>3. AskTypes'
      BY <1>5, <2>2 DEF I!Open, AskTypes, Presenting
    <2>4. \A b \in Asker : stage[b] \in Presenting <=> b = a
      BY <1>5 DEF I!Open, OnePresents, Presenting
    <2>5. OnePresents'
      BY <1>5 DEF I!Open, OnePresents, AskTypes, Presenting
    <2>6. Opened'
      BY <1>5, <2>2 DEF I!Open, Opened, AskTypes, Asked
    <2>7. LateIsWoken'
      BY <1>5, <2>2, <2>4 DEF I!Open, LateIsWoken, AskTypes, Presenting
    <2>8. Displayed' /\ I!WaitingIsShown'
      BY <1>5, <2>4 DEF I!Open, Displayed, I!WaitingIsShown, AskTypes, Presenting, Asked
    <2> QED
      BY <1>5, <2>1, <2>3, <2>5, <2>6, <2>7, <2>8 DEF I!Open, Decided, I!ApprovedByUser, I!Approves
  <1>6. ASSUME NEW a \in Asker, I!Announce(a) PROVE AskInv'
    <2>1. Numbered'
      <3>1. /\ a \notin Coming /\ a \notin Coming'
            /\ \A b \in Asker \ {a} : stage'[b] = stage[b]
        BY <1>6 DEF I!Announce, Coming, AskTypes
      <3>2. Cardinality(Coming') = Cardinality(Coming)
        BY <3>1, ComingSteps
      <3> QED  BY <1>6, <3>2 DEF I!Announce, Numbered
    <2>2. \A b \in Asker : stage[b] \in Presenting <=> b = a
      BY <1>6 DEF I!Announce, OnePresents, Presenting
    <2>3. Displayed' /\ I!WaitingIsShown'
      BY <1>6, <2>2 DEF I!Announce, Displayed, I!WaitingIsShown, AskTypes, Presenting, Asked
    <2> QED
      BY <1>6, <2>1, <2>3 DEF I!Announce, AskTypes, OnePresents, Opened, LateIsWoken, Asked,
        Presenting, Decided, I!ApprovedByUser, I!Approves
  <1>7. ASSUME NEW a \in Asker, I!Wake(a) PROVE AskInv'
    <2>1. Numbered'
      <3>1. /\ a \notin Coming /\ a \notin Coming'
            /\ \A b \in Asker \ {a} : stage'[b] = stage[b]
        BY <1>7 DEF I!Wake, Coming, AskTypes
      <3>2. Cardinality(Coming') = Cardinality(Coming)
        BY <3>1, ComingSteps
      <3> QED  BY <1>7, <3>2 DEF I!Wake, Numbered
    <2>2. \A b \in Asker : stage[b] \in Presenting <=> b = a
      BY <1>7 DEF I!Wake, OnePresents, Presenting
    <2>3. Opened' /\ LateIsWoken' /\ OnePresents'
      BY <1>7, <2>2 DEF I!Wake, OnePresents, Opened, LateIsWoken, AskTypes, Presenting, Asked
    <2>4. Displayed' /\ I!WaitingIsShown'
      BY <1>7, <2>2 DEF I!Wake, Displayed, I!WaitingIsShown, AskTypes, Presenting, Asked
    <2> QED
      BY <1>7, <2>1, <2>3, <2>4 DEF I!Wake, AskTypes, Presenting, Decided, I!ApprovedByUser, I!Approves
  <1>8. ASSUME NEW a \in Asker, I!Return(a) PROVE AskInv'
    <2>1. Numbered'
      <3>1. /\ a \notin Coming /\ a \notin Coming'
            /\ \A b \in Asker \ {a} : stage'[b] = stage[b]
        BY <1>8 DEF I!Return, Coming, AskTypes
      <3>2. Cardinality(Coming') = Cardinality(Coming)
        BY <3>1, ComingSteps
      <3> QED  BY <1>8, <3>2 DEF I!Return, Numbered
    <2>2. \A b \in Asker : stage[b] \in Presenting <=> b = a
      BY <1>8 DEF I!Return, OnePresents, Presenting
    <2>3. asks[a] \in I!Id
      <3>1. asks[a] \in 1 .. counter /\ counter <= MaxAsked
        BY <1>8, ComingIsFinite DEF I!Return, Opened, Asked, Numbered, AskTypes, Askers
      <3> QED  BY <3>1 DEF I!Id, Askers, AskTypes
    <2>4. Decided' /\ I!ApprovedByUser'
      <3>1. CASE stage[a] = "return" /\ I!Approves(asks[a])
        <4>1. result[asks[a]] \in given[asks[a]] /\ result[asks[a]] \in {"approve", "persist"}
          BY <2>3, <3>1 DEF Decided, I!Approves
        <4>2. granted' = granted \cup {asks[a]} /\ UNCHANGED <<result, given>>
          BY <1>8, <3>1 DEF I!Return
        <4>3. allowed' = (allowed \/ result[asks[a]] = "persist")
          BY <1>8, <3>1 DEF I!Return
        <4>4. allowed' => \E i \in I!Id : "persist" \in given[i]
          <5>1. CASE result[asks[a]] = "persist"
            BY <2>3, <4>1, <5>1
          <5>2. CASE result[asks[a]] # "persist"
            BY <4>3, <5>2, Zenon DEF Decided
          <5> QED  BY <5>1, <5>2
        <4>5. Decided'
          <5>1. \A i \in I!Id : I!Approves(i)' => result'[i] \in given'[i]
            BY <4>2 DEF Decided, I!Approves
          <5> QED  BY <4>2, <4>4, <5>1, Zenon DEF Decided
        <4>6. I!ApprovedByUser'
          BY <2>3, <4>1, <4>2 DEF I!ApprovedByUser, I!Id
        <4> QED  BY <4>5, <4>6
      <3>2. CASE ~(stage[a] = "return" /\ I!Approves(asks[a]))
        BY <1>8, <3>2 DEF I!Return, Decided, I!ApprovedByUser, I!Approves
      <3> QED  BY <3>1, <3>2
    <2>5. Displayed' /\ I!WaitingIsShown'
      BY <1>8, <2>2 DEF I!Return, I!Cleared, Displayed, I!WaitingIsShown, AskTypes, Presenting, Asked
    <2>6. Opened' /\ LateIsWoken' /\ OnePresents'
      BY <1>8, <2>2 DEF I!Return, OnePresents, Opened, LateIsWoken, AskTypes, Presenting, Asked, Askers
    <2>7. AskTypes'
      <3>1. allowed' \in BOOLEAN
        BY <1>8 DEF I!Return, AskTypes
      <3>2. granted' \subseteq {0} \cup I!Id
        BY <1>8, <2>3 DEF I!Return, AskTypes
      <3> QED  BY <1>8, <3>1, <3>2 DEF I!Return, AskTypes, I!Cleared, Presenting
    <2> QED  BY <2>1, <2>4, <2>5, <2>6, <2>7
  <1>9. ASSUME NEW a \in Asker, I!Stop(a) PROVE AskInv'
    BY <1>9 DEF I!Stop, AskTypes, Numbered, Coming, OnePresents, Opened, LateIsWoken, Decided,
      Displayed, I!ApprovedByUser, I!WaitingIsShown, I!Approves
  <1>10. CASE I!Resolve
    <2>1. PICK i \in 1 .. counter, r \in I!Answer :
            /\ late' = i
            /\ IF i \in pending
                 THEN /\ result' = [result EXCEPT ![i] = r]
                      /\ woken' = woken \cup {i}
                      /\ given' = [given EXCEPT ![i] = @ \cup {r}]
                 ELSE UNCHANGED <<result, woken, given>>
      BY <1>10 DEF I!Resolve
    <2>2. i \in I!Id
      <3>1. counter <= MaxAsked
        BY ComingIsFinite DEF Numbered, AskTypes, Askers
      <3> QED  BY <3>1 DEF I!Id, Askers, AskTypes
    <2>3. \A j \in I!Id : given[j] \subseteq given'[j]
      BY <2>1 DEF AskTypes
    <2>4. Decided' /\ I!ApprovedByUser'
      BY <1>10, <2>1, <2>2, <2>3 DEF I!Resolve, Decided, I!ApprovedByUser, I!Approves, AskTypes
    <2>5. AskTypes'
      BY <1>10, <2>1, <2>2 DEF I!Resolve, AskTypes
    <2>6. LateIsWoken' /\ I!WaitingIsShown'
      BY <1>10, <2>1 DEF I!Resolve, Opened, LateIsWoken, I!WaitingIsShown
    <2> QED
      BY <1>10, <2>4, <2>5, <2>6 DEF I!Resolve, Numbered, Coming, OnePresents, Opened, Displayed
  <1>11. CASE I!AnnounceResolved
    BY <1>11 DEF I!AnnounceResolved, I!Cleared, AskTypes, Numbered, Coming, OnePresents, Opened,
      LateIsWoken, Decided, Displayed, I!ApprovedByUser, I!WaitingIsShown, I!Approves
  <1>12. CASE I!CancelAll
    BY <1>12 DEF I!CancelAll, AskTypes, Numbered, Coming, OnePresents, Opened,
      LateIsWoken, Decided, Displayed, I!ApprovedByUser, I!WaitingIsShown, I!Approves
  <1>13. CASE I!CancelOne
    <2>1. PICK i \in snapshot :
            /\ result' = [result EXCEPT ![i] = IF @ = "none" THEN "deny" ELSE @]
            /\ woken' = woken \cup {i}
      BY <1>13 DEF I!CancelOne
    <2>2. \A j \in I!Id : result'[j] = result[j] \/ result'[j] = "deny"
      BY <2>1 DEF AskTypes
    <2>3. result' \in [I!Id -> I!Answer \cup {"none"}]
      BY <2>1 DEF AskTypes, I!Answer
    <2>4. Decided'
      BY <1>13, <2>2 DEF I!CancelOne, Decided, I!Approves
    <2> QED
      BY <1>13, <2>1, <2>3, <2>4 DEF I!CancelOne, AskTypes, Numbered, Coming, OnePresents, Opened,
        LateIsWoken, Displayed, I!ApprovedByUser, I!WaitingIsShown
  <1>14. CASE UNCHANGED I!vars
    BY <1>14 DEF I!vars, AskTypes, Numbered, Coming, OnePresents, Opened,
      LateIsWoken, Decided, Displayed, I!ApprovedByUser, I!WaitingIsShown, I!Approves
  <1> HIDE DEF AskInv, I!Step
  <1> QED
    BY <1>1, <1>2, <1>3, <1>4, <1>5, <1>6, <1>7, <1>8, <1>9, <1>10, <1>11, <1>12, <1>13, <1>14
    DEF I!Next, I!Proceed

LEMMA AskGives == AskInv => InteractionsMatch
  BY DEF AskInv, InteractionsMatch, I!NoGhost, Displayed, Asked

\* However many threads ask, are stopped or find the bridge closing, and however often and late the
\* user answers: tools run on approvals the user gave to that very interaction, or on a rule the
\* user asked to keep; what waits is on display, and nothing else is
\* (BridgeInteractionProvider.request, resolve, cancel_all; SessionRuntimeRegistry.publish).
THEOREM AnswersAreTheUsers ==
    ASSUME Askers
    PROVE  I!Spec => [](I!ApprovedByUser /\ I!WaitingIsShown /\ I!NoGhost)
  <1>1. AskInv => I!ApprovedByUser /\ I!WaitingIsShown /\ I!NoGhost
    BY AskGives DEF InteractionsMatch
  <1> QED  BY <1>1, AskInitially, AskInductive, PTL DEF I!Spec

\* The same beside the other parts of the run (BridgeInteractionProvider).
THEOREM InteractionsAreMatched == ASSUME Askers PROVE MCSpec => []InteractionsMatch
  <1>1. MCInit => AskInv
    BY AskInitially DEF MCInit
  <1>2. AskInv /\ [MCNext]_parts => AskInv'
    <2>1. [MCNext]_parts => [I!Next]_(I!vars)
      BY DEF MCNext, parts, asking, I!vars
    <2> QED  BY <2>1, AskInductive
  <1> QED  BY <1>1, <1>2, AskGives, PTL DEF MCSpec, parts

-----------------------------------------------------------------------------
(* The threads around the queue (SessionBridge).                           *)

Queued == [kind : Kind, method : Method \cup {"none"}, of : Nat]
Label == {"idle", "cancel", "use", "check", "put", "toggle", "leave", "hand_over", "stop", "stopped",
          "none", "head", "take", "token", "peek", "look", "serve", "need", "start", "join", "ready",
          "unuse", "need_again", "turn", "ask", "rewind", "confirm", "end", "done", "apply", "close",
          "drop", "discard", "join_builder", "close_session", "await_turn", "join_worker"}

QueueTypes ==
    /\ pc \in [Thread -> Label]
    /\ session \in {"none", "warm", "shut"} /\ generation \in Nat
    /\ builder \in {"none", "building", "built", "installed"} /\ closes \in Nat

TaskTypes == tasks \in Seq(Queued) /\ task \in Queued \cup {NoTask}

\* The worker has a task in hand from its taking to its end, and what is queued or in hand is
\* unfinished.
InHand == pc["worker"] \notin {"none", "head", "take"}
Handed == task.kind = "none" <=> ~InHand
Unfinished == unfinished = Len(tasks) + (IF InHand THEN 1 ELSE 0)

\* Who is inside _runtime_use(): as many as are counted.
StdinUses == pc["stdin"] \in {"check", "put", "toggle", "leave"}
ControlUses == pc["control"] \in {"need", "start", "join", "ready", "unuse"}
WorkerUses ==
    task.kind = "request" /\ pc["worker"] \in {"need", "start", "join", "ready", "put", "unuse"}
Users ==
    users = (IF StdinUses THEN 1 ELSE 0) + (IF ControlUses THEN 1 ELSE 0)
            + (IF WorkerUses THEN 1 ELSE 0)

\* The kind of task each stage of the worker serves.
Stages ==
    /\ pc["stdin"] \in {"use", "hand_over"} => method \in Method
    /\ pc["worker"] = "ask" => task.kind = "external"
    /\ pc["worker"] \in {"rewind", "confirm"} => task.kind = "rewind"
    /\ pc["worker"] \in {"need", "start", "join", "ready", "turn"} =>
          task.kind \in {"turn", "apply", "request"}
    /\ pc["worker"] \in {"put", "unuse", "need_again"} => task.kind = "request"

\* Only a prompt that asks for an approval and a rewind hold on to a session.
Captures(t) == t.kind \in {"external", "rewind"}
Unbound ==
    /\ ~Captures(task) => task.of = 0
    /\ \A i \in 1 .. Len(tasks) : ~Captures(tasks[i]) => tasks[i].of = 0

\* _active_lock is kept only while a rewind is being queued.
Locked ==
    /\ activeLock = "stdin" <=> pc["stdin"] = "put" /\ method = "rewind"
    /\ activeLock = "worker" <=> pc["worker"] = "put"

\* One thread at a time starts a construction, while there is no session and none is being built.
Starting ==
    /\ pc["worker"] # "start" \/ pc["control"] # "start"
    /\ pc["worker"] = "start" \/ pc["control"] = "start" => session = "none" /\ builder = "none"
    /\ pc["stdin"] # "start" /\ pc["maintain"] # "start" /\ pc["close"] # "start"

\* How far a close has come.
Closings ==
    /\ pc["close"] # "idle" => closes > 0
    /\ closes > 0 => closing /\ pc["maintain"] = "idle"
    /\ pc["close"] \in {"join_worker", "done"} => session # "warm"
    /\ pc["close"] = "done" => pc["worker"] = "none"

\* While a session is being suspended nobody builds one, nobody is inside it, and no task holds on
\* to it.
Suspensions ==
    /\ suspending <=> pc["maintain"] \in {"close", "drop"}
    /\ suspending =>
        /\ builder = "none" /\ session = IF pc["maintain"] = "close" THEN "warm" ELSE "shut"
        /\ ~StdinUses /\ pc["control"] \notin {"start", "join", "ready"}
        /\ pc["worker"] \notin {"start", "join", "ready", "put", "turn", "ask", "rewind", "confirm"}
        /\ ~Captures(task) /\ \A i \in 1 .. Len(tasks) : ~Captures(tasks[i])

\* Until the bridge closes: a closed session is one being suspended, whoever uses a session finds
\* it there, and what a task holds on to is the session in place.
InPlace ==
    ~closing =>
        /\ session = "shut" => suspending
        /\ StdinUses \/ pc["control"] = "ready" \/ pc["worker"] \in {"ready", "put"} => session = "warm"
        /\ Captures(task) => task.of = generation /\ session = "warm"
        /\ \A i \in 1 .. Len(tasks) : Captures(tasks[i]) => tasks[i].of = generation /\ session = "warm"

\* A rewind that came to its end has given the flag back, unless it was given up before.
Ended ==
    rewindPending /\ ~closing /\ ~dropped /\ task.kind = "rewind" => pc["worker"] \notin {"end", "done"}

QueueInv ==
    /\ QueueTypes /\ TaskTypes /\ Handed /\ Unfinished /\ Users /\ Stages /\ Unbound /\ Locked
    /\ Starting /\ Closings /\ Suspensions /\ InPlace /\ Ended
    /\ WorkerPresent /\ RewindPendingHonest

\* The tasks the code makes.
LEMMA MadeTasks ==
    /\ NoTask.kind = "none" /\ NoTask.of = 0
    /\ \A q \in Queued : q.kind \in Kind /\ q.kind # "none" /\ q.of \in Nat
    /\ TurnTask \in Queued /\ TurnTask.kind = "turn" /\ TurnTask.of = 0
    /\ \A m \in Method : [kind |-> "request", method |-> m, of |-> 0] \in Queued
    /\ [kind |-> "apply", method |-> "none", of |-> 0] \in Queued
  BY DEF NoTask, Queued, Kind, TurnTask, Method

LEMMA HoldingTask ==
    ASSUME QueueTypes, NEW k \in {"external", "rewind"}
    PROVE  Holding(k) \in Queued /\ Holding(k).kind = k /\ Holding(k).of = generation
  BY DEF QueueTypes, Holding, Queued, Kind

LEMMA PreparedTask ==
    ASSUME TaskTypes, task.kind # "none"
    PROVE  LET q == [task EXCEPT !.method = "none"]
           IN  q \in Queued /\ q.kind = task.kind /\ q.of = task.of
  BY DEF TaskTypes, Queued, NoTask

\* The queue after its head was taken.
LEMMA TakenHead ==
    ASSUME TaskTypes, tasks # <<>>
    PROVE  /\ Head(tasks) = tasks[1] /\ Head(tasks) \in Queued /\ Tail(tasks) \in Seq(Queued)
           /\ Len(tasks) \in Nat /\ Len(tasks) > 0 /\ Len(Tail(tasks)) = Len(tasks) - 1
           /\ \A i \in 1 .. Len(Tail(tasks)) :
                 i + 1 \in 1 .. Len(tasks) /\ Tail(tasks)[i] = tasks[i + 1]
  BY DEF TaskTypes

\* The queue after thread t put task new into it and went on at next.
Added(t, new, next) ==
    /\ tasks' \in Seq(Queued) /\ Len(tasks') = Len(tasks) + 1 /\ Len(tasks) \in Nat /\ tasks' # <<>>
    /\ \A i \in 1 .. Len(tasks) : tasks'[i] = tasks[i]
    /\ tasks'[Len(tasks) + 1] = new
    /\ \A i \in 1 .. Len(tasks') :
          \/ i \in 1 .. Len(tasks) /\ tasks'[i] = tasks[i]
          \/ i = Len(tasks) + 1 /\ tasks'[i] = new
    /\ unfinished' = unfinished + 1 /\ ~closing
    /\ pc' \in [Thread -> Label]
    /\ \A u \in Thread \ {t, "worker"} : pc'[u] = pc[u]
    /\ t # "worker" => pc'[t] = next
    /\ pc["worker"] = "none" => pc'["worker"] = "head"
    /\ pc["worker"] # "none" => pc'["worker"] = IF t = "worker" THEN next ELSE pc["worker"]

LEMMA EnqueueAdds ==
    ASSUME QueueInv, NEW t \in Thread, NEW next \in Label, NEW new \in Queued, Enqueue(t, new, next)
    PROVE  Added(t, new, next)
  BY DEF QueueInv, TaskTypes, QueueTypes, Enqueue, StartsWorker, Thread, Label, Added

LEMMA QueueInitially == Init => QueueInv
  BY DEF Init, QueueInv, QueueTypes, TaskTypes, Handed, Unfinished, Users, Stages, Unbound, Locked,
      Starting, Closings, Suspensions, InPlace, Ended, WorkerPresent, RewindPendingHonest, Captures,
      StdinUses, ControlUses, WorkerUses, InHand, Label, Thread, Go, locks, queue, turns, runtime,
      ending, NoTask

\* A request is handed over to the worker.
LEMMA HandOverKeeps == ASSUME QueueInv, HandOver PROVE QueueInv'
  <1> DEFINE new == [kind |-> "request", method |-> method, of |-> 0]
  <1>1. pc["stdin"] = "hand_over" /\ UNCHANGED <<method, locks, turns, runtime, ending>>
    BY DEF HandOver
  <1>2. new \in Queued /\ new.kind = "request" /\ new.of = 0
    BY <1>1, MadeTasks DEF QueueInv, Stages
  <1>3. Enqueue("stdin", new, "idle") => Added("stdin", new, "idle")
    BY <1>2, EnqueueAdds DEF Thread, Label
  <1> HIDE DEF new
  <1> USE DEF QueueInv, QueueTypes, TaskTypes, Handed, Unfinished, Users, Stages, Unbound, Locked,
      Starting, Closings, Suspensions, InPlace, Ended, WorkerPresent, RewindPendingHonest, Captures,
      StdinUses, ControlUses, WorkerUses, InHand, Label, Thread, Go, locks, queue, turns, runtime,
      ending
  <1>4. CASE Added("stdin", new, "idle")
    <2>11. (QueueTypes /\ TaskTypes /\ Unfinished)'
      BY <1>1, <1>2, <1>4 DEF Added
    <2>12. (Handed /\ Users /\ Stages /\ Locked /\ Starting /\ Closings /\ Ended /\ WorkerPresent)'
      BY <1>1, <1>2, <1>4 DEF Added
    <2>13. Unbound'
      BY <1>1, <1>2, <1>4 DEF Added
    <2>14. Suspensions'
      BY <1>1, <1>2, <1>4 DEF Added
    <2>15. InPlace'
      BY <1>1, <1>2, <1>4 DEF Added
    <2>16. RewindPendingHonest'
      BY <1>1, <1>2, <1>4 DEF Added
    <2> QED  BY <2>11, <2>12, <2>13, <2>14, <2>15, <2>16
  <1>5. CASE EnqueueRefused("stdin", "idle")
    BY <1>1, <1>5 DEF EnqueueRefused
  <1> QED  BY <1>3, <1>4, <1>5 DEF HandOver, new

\* A prompt is queued.
LEMMA SubmitPutKeeps == ASSUME QueueInv, SubmitPut PROVE QueueInv'
  <1> DEFINE new == IF method = "submit" THEN TurnTask ELSE Holding("external")
  <1>1. /\ pc["stdin"] = "put" /\ method \in {"submit", "external"}
        /\ UNCHANGED <<method, locks, turns, runtime, ending>>
    BY DEF SubmitPut
  <1>2. /\ new \in Queued /\ new.kind \in {"turn", "external"}
        /\ new.kind = "turn" => new.of = 0
        /\ new.kind = "external" => new.of = generation
    BY <1>1, MadeTasks, HoldingTask DEF QueueInv
  <1>3. Enqueue("stdin", new, "leave") => Added("stdin", new, "leave")
    BY <1>2, EnqueueAdds DEF Thread, Label
  <1> HIDE DEF new
  <1> USE DEF QueueInv, QueueTypes, TaskTypes, Handed, Unfinished, Users, Stages, Unbound, Locked,
      Starting, Closings, Suspensions, InPlace, Ended, WorkerPresent, RewindPendingHonest, Captures,
      StdinUses, ControlUses, WorkerUses, InHand, Label, Thread, Go, locks, queue, turns, runtime,
      ending
  <1>4. CASE Added("stdin", new, "leave")
    <2>11. (QueueTypes /\ TaskTypes /\ Unfinished)'
      BY <1>1, <1>2, <1>4 DEF Added
    <2>12. (Handed /\ Users /\ Stages /\ Locked /\ Starting /\ Closings /\ Ended /\ WorkerPresent)'
      BY <1>1, <1>2, <1>4 DEF Added
    <2>13. Unbound'
      BY <1>1, <1>2, <1>4 DEF Added
    <2>14. Suspensions'
      BY <1>1, <1>2, <1>4 DEF Added
    <2>15. InPlace'
      BY <1>1, <1>2, <1>4 DEF Added
    <2>16. RewindPendingHonest'
      BY <1>1, <1>2, <1>4 DEF Added
    <2> QED  BY <2>11, <2>12, <2>13, <2>14, <2>15, <2>16
  <1>5. CASE EnqueueRefused("stdin", "leave")
    BY <1>1, <1>5 DEF EnqueueRefused
  <1> QED  BY <1>3, <1>4, <1>5 DEF SubmitPut, new

\* _queue_rewind(), from the loop over stdin and from the worker: the checks under _active_lock.
LEMMA RewindCheckKeeps ==
    ASSUME QueueInv, NEW t \in {"stdin", "worker"}, NEW own, NEW next,
           \/ t = "stdin" /\ own = FALSE /\ next = "leave" /\ method = "rewind" /\ pc["stdin"] = "check"
           \/ t = "worker" /\ next = "unuse" /\ pc["worker"] = "ready" /\ task.kind = "request",
           RewindCheck(t, own, next)
    PROVE  QueueInv'
  <1>1. activeLock = "free" /\ UNCHANGED <<method, queue, task, runtime, ending>>
    BY DEF RewindCheck
  <1>2. CASE Go(t, next) /\ UNCHANGED <<activeLock, rewindPending>>
    <2> USE DEF QueueInv, QueueTypes, TaskTypes, Handed, Unfinished, Users, Stages, Unbound, Locked,
        Starting, Closings, Suspensions, InPlace, Ended, WorkerPresent, RewindPendingHonest,
        Captures, StdinUses, ControlUses, WorkerUses, InHand, Label, Thread, Go, locks, queue,
        turns, runtime, ending
    <2> QED  BY <1>1, <1>2
  <1>3. CASE ~RewindBlocked(own) /\ activeLock' = t /\ rewindPending' = TRUE /\ Go(t, "put")
    <2>1. t = "stdin" => ~InHand
      BY <1>3 DEF RewindBlocked, QueueInv, Unfinished, TaskTypes
    <2> USE DEF QueueInv, QueueTypes, TaskTypes, Handed, Unfinished, Users, Stages, Unbound, Locked,
        Starting, Closings, Suspensions, InPlace, Ended, WorkerPresent, RewindPendingHonest,
        Captures, StdinUses, ControlUses, WorkerUses, InHand, Label, Thread, Go, locks, queue,
        turns, runtime, ending
    <2>2. CASE t = "stdin"
      BY <1>1, <1>3, <2>1, <2>2
    <2>3. CASE t = "worker"
      BY <1>1, <1>3, <2>3
    <2> QED  BY <2>2, <2>3
  <1> QED  BY <1>2, <1>3 DEF RewindCheck

\* Then the put.
LEMMA RewindPutKeeps ==
    ASSUME QueueInv, NEW t \in {"stdin", "worker"}, NEW next,
           \/ t = "stdin" /\ next = "leave" /\ method = "rewind" /\ pc["stdin"] = "put"
           \/ t = "worker" /\ next = "unuse" /\ pc["worker"] = "put",
           RewindPut(t, next)
    PROVE  QueueInv'
  <1>1. activeLock = t /\ activeLock' = "free" /\ UNCHANGED <<method, turns, runtime, ending>>
    BY DEF RewindPut
  <1>2. LET new == Holding("rewind")
        IN  new \in Queued /\ new.kind = "rewind" /\ new.of = generation
    BY HoldingTask DEF QueueInv
  <1>3. Enqueue(t, Holding("rewind"), next) => Added(t, Holding("rewind"), next)
    BY <1>2, EnqueueAdds DEF Thread, Label
  <1> USE DEF QueueInv, QueueTypes, TaskTypes, Handed, Unfinished, Users, Stages, Unbound, Locked,
      Starting, Closings, Suspensions, InPlace, Ended, WorkerPresent, RewindPendingHonest, Captures,
      StdinUses, ControlUses, WorkerUses, InHand, Label, Thread, Go, locks, queue, turns, runtime,
      ending
  <1>4. CASE Added(t, Holding("rewind"), next)
    <2>11. (QueueTypes /\ TaskTypes /\ Unfinished)'
      BY <1>1, <1>2, <1>4 DEF Added
    <2>12. (Handed /\ Users /\ Stages /\ Locked /\ Starting /\ Closings /\ Ended /\ WorkerPresent)'
      BY <1>1, <1>2, <1>4 DEF Added
    <2>13. Unbound'
      BY <1>1, <1>2, <1>4 DEF Added
    <2>14. Suspensions'
      BY <1>1, <1>2, <1>4 DEF Added
    <2>15. InPlace'
      BY <1>1, <1>2, <1>4 DEF Added
    <2>16. RewindPendingHonest'
      BY <1>1, <1>2, <1>4 DEF Added
    <2> QED  BY <2>11, <2>12, <2>13, <2>14, <2>15, <2>16
  <1>5. CASE EnqueueRefused(t, next)
    BY <1>1, <1>5 DEF EnqueueRefused
  <1> QED  BY <1>3, <1>4, <1>5 DEF RewindPut

\* The loop over stdin.
LEMMA StdinKeeps == ASSUME QueueInv, Receive \/ StdinServes PROVE QueueInv'
  <1>1. ASSUME StdinRewind PROVE QueueInv'
    BY <1>1, RewindCheckKeeps, RewindPutKeeps DEF StdinRewind
  <1> USE DEF QueueInv, QueueTypes, TaskTypes, Handed, Unfinished, Users, Stages, Unbound, Locked,
      Starting, Closings, Suspensions, InPlace, Ended, WorkerPresent, RewindPendingHonest, Captures,
      StdinUses, ControlUses, WorkerUses, InHand, Label, Thread, Go, locks, queue, turns, runtime,
      ending
  <1>2. CASE Receive
    BY <1>2 DEF Receive
  <1>3. CASE Reserve
    BY <1>3 DEF Reserve, RuntimeFree, Usable, Constructing
  <1>4. CASE SubmitCheck \/ Toggle \/ CancelRead \/ CancelSet \/ CancelEnd
    BY <1>4 DEF SubmitCheck, Toggle, CancelRead, CancelSet, CancelEnd
  <1>5. CASE Leave
    BY <1>5 DEF Leave
  <1> HIDE DEF QueueInv
  <1> QED  BY <1>1, <1>2, <1>3, <1>4, <1>5, HandOverKeeps, SubmitPutKeeps DEF StdinServes

\* _require_session() of the worker and of a control thread.
LEMMA RequireKeeps ==
    ASSUME QueueInv, NEW t \in {"worker", "control"}, Need(t) \/ Start(t) \/ Join(t)
    PROVE  QueueInv'
  <1> USE DEF QueueInv, QueueTypes, TaskTypes, Handed, Unfinished, Users, Stages, Unbound, Locked,
      Starting, Closings, Suspensions, InPlace, Ended, WorkerPresent, RewindPendingHonest, Captures,
      StdinUses, ControlUses, WorkerUses, InHand, Label, Thread, Go, locks, queue, turns, runtime,
      ending
  <1>1. CASE Need(t)
    BY <1>1 DEF Need, RuntimeFree, GivesUp, Fails, Constructing
  <1>2. CASE Start(t)
    BY <1>2 DEF Start
  <1>3. CASE Join(t)
    BY <1>3 DEF Join, RuntimeFree, GivesUp, Fails, Constructing
  <1> QED  BY <1>1, <1>2, <1>3

\* The worker takes the head of the queue, or goes.
LEMMA TakeKeeps == ASSUME QueueInv, Take PROVE QueueInv'
  <1>1. /\ pc["worker"] = "take"
        /\ UNCHANGED <<method, activeLock, unfinished, rewindPending, runtime, ending>>
    BY DEF Take
  <1>2. CASE tasks = <<>> /\ Go("worker", "none") /\ UNCHANGED <<tasks, task>>
    <2> USE DEF QueueInv, QueueTypes, TaskTypes, Handed, Unfinished, Users, Stages, Unbound, Locked,
        Starting, Closings, Suspensions, InPlace, Ended, WorkerPresent, RewindPendingHonest,
        Captures, StdinUses, ControlUses, WorkerUses, InHand, Label, Thread, Go, locks, queue,
        turns, runtime, ending
    <2> QED  BY <1>1, <1>2
  <1>3. CASE tasks # <<>> /\ tasks' = Tail(tasks) /\ task' = tasks[1] /\ Go("worker", "token")
    <2>1. /\ task' \in Queued /\ task'.kind # "none" /\ tasks' \in Seq(Queued)
          /\ Len(tasks) \in Nat /\ Len(tasks) > 0 /\ Len(tasks') = Len(tasks) - 1
          /\ \A i \in 1 .. Len(tasks') : i + 1 \in 1 .. Len(tasks) /\ tasks'[i] = tasks[i + 1]
      BY <1>3, TakenHead, MadeTasks DEF QueueInv
    <2>2. ASSUME rewindPending', ~closing', ~dropped' PROVE RewindPendingHonest'
      <3>1. \/ \E t \in {"stdin", "worker"} : activeLock = t
            \/ \E i \in 1 .. Len(tasks) : tasks[i].kind = "rewind"
        <4>1. task.kind = "none"
          BY <1>1 DEF QueueInv, Handed, InHand
        <4>2. rewindPending /\ ~closing /\ ~dropped
          BY <1>1, <2>2 DEF ending
        <4> QED  BY <4>1, <4>2 DEF QueueInv, RewindPendingHonest
      <3>2. CASE \E t \in {"stdin", "worker"} : activeLock = t
        BY <1>1, <3>2 DEF RewindPendingHonest
      <3>3. CASE \E i \in 1 .. Len(tasks) : tasks[i].kind = "rewind"
        <4>1. PICK i \in 1 .. Len(tasks) : tasks[i].kind = "rewind"
          BY <3>3
        <4>2. CASE i = 1
          BY <4>1, <4>2, <1>3 DEF RewindPendingHonest
        <4>3. CASE i # 1
          <5>1. i - 1 \in 1 .. Len(tasks') /\ tasks'[i - 1] = tasks[i]
            BY <4>3, <2>1
          <5> QED  BY <5>1, <4>1 DEF RewindPendingHonest
        <4> QED  BY <4>2, <4>3
      <3> QED  BY <3>1, <3>2, <3>3
    <2>3. RewindPendingHonest'
      BY <2>2 DEF RewindPendingHonest
    <2> USE DEF QueueInv, QueueTypes, TaskTypes, Handed, Unfinished, Users, Stages, Unbound, Locked,
        Starting, Closings, Suspensions, InPlace, Ended, WorkerPresent, RewindPendingHonest,
        Captures, StdinUses, ControlUses, WorkerUses, InHand, Label, Thread, Go, locks, queue,
        turns, runtime, ending
    <2>11. (QueueTypes /\ TaskTypes /\ Unfinished)'
      BY <1>1, <1>3, <2>1, MadeTasks
    <2>12. (Handed /\ Users /\ Stages /\ Locked /\ Starting /\ Closings /\ Ended /\ WorkerPresent)'
      BY <1>1, <1>3, <2>1, MadeTasks
    <2>13. Unbound'
      BY <1>1, <1>3, <2>1, MadeTasks
    <2>14. Suspensions'
      BY <1>1, <1>3, <2>1, MadeTasks
    <2>15. InPlace'
      BY <1>1, <1>3, <2>1, MadeTasks
    <2> QED  BY <2>11, <2>12, <2>13, <2>14, <2>15, <2>3
  <1> QED  BY <1>2, <1>3, TakenHead DEF Take, QueueInv

\* A request that was handed over is dispatched.
LEMMA DispatchKeeps == ASSUME QueueInv, Dispatch PROVE QueueInv'
  <1> DEFINE new == Holding("external")
  <1>1. /\ pc["worker"] = "ready" /\ task.kind = "request"
        /\ UNCHANGED <<method, activeLock, rewindPending, runtime, ending>>
    BY DEF Dispatch, locks
  <1>2. task' \in Queued \cup {NoTask} /\ task'.kind = task.kind /\ task'.of = task.of
    BY <1>1, PreparedTask DEF Dispatch, QueueInv, TaskTypes
  <1>3. new \in Queued /\ new.kind = "external" /\ new.of = generation
    BY HoldingTask DEF QueueInv
  <1>4. Enqueue("worker", new, "unuse") => Added("worker", new, "unuse")
    BY <1>3, EnqueueAdds DEF Thread, Label
  <1>5. \/ Go("worker", "unuse") /\ UNCHANGED queue
        \/ Enqueue("worker", new, "unuse") /\ task' = task
    BY DEF Dispatch, EnqueueRefused
  <1> HIDE DEF new
  <1> USE DEF QueueInv, QueueTypes, TaskTypes, Handed, Unfinished, Users, Stages, Unbound, Locked,
      Starting, Closings, Suspensions, InPlace, Ended, WorkerPresent, RewindPendingHonest, Captures,
      StdinUses, ControlUses, WorkerUses, InHand, Label, Thread, Go, locks, queue, turns, runtime,
      ending
  <1>6. CASE Go("worker", "unuse") /\ UNCHANGED queue
    BY <1>1, <1>2, <1>6
  <1>7. CASE Added("worker", new, "unuse") /\ task' = task
    <2>11. (QueueTypes /\ TaskTypes /\ Unfinished)'
      BY <1>1, <1>3, <1>7 DEF Added
    <2>12. (Handed /\ Users /\ Stages /\ Locked /\ Starting /\ Closings /\ Ended /\ WorkerPresent)'
      BY <1>1, <1>3, <1>7 DEF Added
    <2>13. Unbound'
      BY <1>1, <1>3, <1>7 DEF Added
    <2>14. Suspensions'
      BY <1>1, <1>3, <1>7 DEF Added
    <2>15. InPlace'
      BY <1>1, <1>3, <1>7 DEF Added
    <2>16. RewindPendingHonest'
      BY <1>1, <1>3, <1>7 DEF Added
    <2> QED  BY <2>11, <2>12, <2>13, <2>14, <2>15, <2>16
  <1> QED  BY <1>4, <1>5, <1>6, <1>7

\* The prompt with files from outside is approved and queued again, or denied.
LEMMA AnsweredKeeps == ASSUME QueueInv, Answered PROVE QueueInv'
  <1>1. pc["worker"] = "ask" /\ UNCHANGED <<method, locks, turns, runtime, ending>>
    BY DEF Answered
  <1>2. Enqueue("worker", TurnTask, "end") => Added("worker", TurnTask, "end")
    BY MadeTasks, EnqueueAdds DEF Thread, Label
  <1> USE DEF QueueInv, QueueTypes, TaskTypes, Handed, Unfinished, Users, Stages, Unbound, Locked,
      Starting, Closings, Suspensions, InPlace, Ended, WorkerPresent, RewindPendingHonest, Captures,
      StdinUses, ControlUses, WorkerUses, InHand, Label, Thread, Go, locks, queue, turns, runtime,
      ending
  <1>3. CASE Added("worker", TurnTask, "end")
    <2>11. (QueueTypes /\ TaskTypes /\ Unfinished)'
      BY <1>1, <1>3, MadeTasks DEF Added
    <2>12. (Handed /\ Users /\ Stages /\ Locked /\ Starting /\ Closings /\ Ended /\ WorkerPresent)'
      BY <1>1, <1>3, MadeTasks DEF Added
    <2>13. Unbound'
      BY <1>1, <1>3, MadeTasks DEF Added
    <2>14. Suspensions'
      BY <1>1, <1>3, MadeTasks DEF Added
    <2>15. InPlace'
      BY <1>1, <1>3, MadeTasks DEF Added
    <2>16. RewindPendingHonest'
      BY <1>1, <1>3, MadeTasks DEF Added
    <2> QED  BY <2>11, <2>12, <2>13, <2>14, <2>15, <2>16
  <1>4. CASE Go("worker", "end") /\ UNCHANGED queue
    BY <1>1, <1>4
  <1> QED  BY <1>2, <1>3, <1>4 DEF Answered, EnqueueRefused

\* The worker.
LEMMA WorkerKeeps ==
    ASSUME QueueInv, WorkerSteps \/ TurnEnds \/ Answered \/ ToolEnds PROVE QueueInv'
  <1>1. ASSUME OwnRewind PROVE QueueInv'
    BY <1>1, RewindCheckKeeps, RewindPutKeeps DEF OwnRewind
  <1>2. ASSUME Need("worker") \/ Start("worker") \/ Join("worker") PROVE QueueInv'
    BY <1>2, RequireKeeps
  <1>3. ASSUME Look PROVE QueueInv'
    <2>1. PICK l \in {"end", "serve"} :
            /\ Go("worker", l)
            /\ l = "end" /\ task.kind = "rewind" => dropped'
            /\ dropped => dropped'
      BY <1>3 DEF Look
    <2>2. pc["worker"] = "look" /\ UNCHANGED <<method, locks, queue, turns, runtime, closing, closes>>
      BY <1>3 DEF Look
    <2> USE DEF QueueInv, QueueTypes, TaskTypes, Handed, Unfinished, Users, Stages, Unbound, Locked,
        Starting, Closings, Suspensions, InPlace, Ended, WorkerPresent, RewindPendingHonest,
        Captures, StdinUses, ControlUses, WorkerUses, InHand, Label, Thread, Go, locks, queue,
        turns, runtime, ending
    <2> QED  BY <2>1, <2>2
  <1>4. ASSUME Begin PROVE QueueInv'
    <2>1. PICK l \in {"end", "turn"} : Go("worker", l) /\ (l = "turn" => session # "shut")
      BY <1>4 DEF Begin
    <2>2. /\ pc["worker"] = "ready" /\ task.kind \in {"turn", "apply"}
          /\ UNCHANGED <<method, locks, queue, turns, runtime, ending>>
      BY <1>4 DEF Begin
    <2> USE DEF QueueInv, QueueTypes, TaskTypes, Handed, Unfinished, Users, Stages, Unbound, Locked,
        Starting, Closings, Suspensions, InPlace, Ended, WorkerPresent, RewindPendingHonest,
        Captures, StdinUses, ControlUses, WorkerUses, InHand, Label, Thread, Go, locks, queue,
        turns, runtime, ending
    <2> QED  BY <2>1, <2>2
  <1> USE DEF QueueInv, QueueTypes, TaskTypes, Handed, Unfinished, Users, Stages, Unbound, Locked,
      Starting, Closings, Suspensions, InPlace, Ended, WorkerPresent, RewindPendingHonest, Captures,
      StdinUses, ControlUses, WorkerUses, InHand, Label, Thread, Go, locks, queue, turns, runtime,
      ending
  <1>5. CASE Loop \/ MakeToken \/ Peek
    BY <1>5 DEF Loop, MakeToken, Peek
  <1>6. CASE Serve
    BY <1>6, MadeTasks DEF Serve, Use, RuntimeFree, Kind
  <1>7. CASE WorkerUnuse
    BY <1>7 DEF WorkerUnuse, Unuse, RuntimeFree
  <1>8. CASE PromptOfRequest
    BY <1>8, MadeTasks DEF PromptOfRequest
  <1>9. CASE Cancelled
    BY <1>9 DEF Cancelled
  <1>10. CASE TurnEnds
    BY <1>10 DEF TurnEnds
  <1>11. CASE ToolEnds
    BY <1>11 DEF ToolEnds
  <1>12. CASE AskRewind \/ Rewind \/ DropToken
    BY <1>12 DEF AskRewind, Rewind, DropToken
  <1>13. CASE Done
    BY <1>13, MadeTasks DEF Done
  <1> HIDE DEF QueueInv
  <1> QED
    BY <1>1, <1>2, <1>3, <1>4, <1>5, <1>6, <1>7, <1>8, <1>9, <1>10, <1>11, <1>12, <1>13,
       TakeKeeps, DispatchKeeps, AnsweredKeeps
    DEF WorkerSteps

\* The construction thread and the maintenance thread.
LEMMA SessionKeeps == ASSUME QueueInv, BuilderSteps \/ Suspend \/ SuspensionSteps PROVE QueueInv'
  <1> USE DEF QueueInv, QueueTypes, TaskTypes, Handed, Unfinished, Users, Stages, Unbound, Locked,
      Starting, Closings, Suspensions, InPlace, Ended, WorkerPresent, RewindPendingHonest, Captures,
      StdinUses, ControlUses, WorkerUses, InHand, Label, Thread, Go, locks, queue, turns, runtime,
      ending
  <1>1. CASE BuilderSteps
    BY <1>1 DEF BuilderSteps, Build, Install, Stale, BuilderEnds
  <1>2. CASE Suspend
    BY <1>2 DEF Suspend, RuntimeFree, Quiet, Constructing
  <1>3. CASE SuspensionSteps
    BY <1>3 DEF SuspensionSteps, SuspendCloses, SuspendRefused, DropSession, RuntimeFree
  <1> QED  BY <1>1, <1>2, <1>3

\* A control thread.
LEMMA ControlKeeps == ASSUME QueueInv, ControlBegins \/ ControlSteps PROVE QueueInv'
  <1> DEFINE new == [kind |-> "apply", method |-> "none", of |-> 0]
  <1>1. new \in Queued /\ new.kind = "apply" /\ new.of = 0
    BY MadeTasks
  <1>2. Enqueue("control", new, "idle") => Added("control", new, "idle")
    BY <1>1, EnqueueAdds DEF Thread, Label
  <1>3. ASSUME Need("control") \/ Start("control") \/ Join("control") PROVE QueueInv'
    BY <1>3, RequireKeeps
  <1> HIDE DEF new
  <1>4. \/ ControlBegins
        \/ /\ pc["control"] = "apply" /\ UNCHANGED <<method, locks, turns, runtime, ending>>
           /\ Enqueue("control", new, "idle") \/ EnqueueRefused("control", "idle")
        \/ pc["control"] = "use" /\ Use("control")
        \/ Need("control") \/ Start("control") \/ Join("control")
        \/ /\ pc["control"] = "ready" /\ Go("control", "unuse")
           /\ UNCHANGED <<method, locks, queue, turns, runtime, ending>>
        \/ Unuse("control", "idle")
    BY DEF ControlSteps, new
  <1> USE DEF QueueInv, QueueTypes, TaskTypes, Handed, Unfinished, Users, Stages, Unbound, Locked,
      Starting, Closings, Suspensions, InPlace, Ended, WorkerPresent, RewindPendingHonest, Captures,
      StdinUses, ControlUses, WorkerUses, InHand, Label, Thread, Go, locks, queue, turns, runtime,
      ending
  <1>5. CASE ControlBegins
    BY <1>5 DEF ControlBegins
  <1>6. CASE /\ pc["control"] = "apply" /\ UNCHANGED <<method, locks, turns, runtime, ending>>
             /\ Added("control", new, "idle")
    <2>11. (QueueTypes /\ TaskTypes /\ Unfinished)'
      BY <1>1, <1>6 DEF Added
    <2>12. (Handed /\ Users /\ Stages /\ Locked /\ Starting /\ Closings /\ Ended /\ WorkerPresent)'
      BY <1>1, <1>6 DEF Added
    <2>13. Unbound'
      BY <1>1, <1>6 DEF Added
    <2>14. Suspensions'
      BY <1>1, <1>6 DEF Added
    <2>15. InPlace'
      BY <1>1, <1>6 DEF Added
    <2>16. RewindPendingHonest'
      BY <1>1, <1>6 DEF Added
    <2> QED  BY <2>11, <2>12, <2>13, <2>14, <2>15, <2>16
  <1>7. CASE /\ pc["control"] = "apply" /\ UNCHANGED <<method, locks, turns, runtime, ending>>
             /\ EnqueueRefused("control", "idle")
    BY <1>7 DEF EnqueueRefused
  <1>8. CASE pc["control"] = "use" /\ Use("control")
    <2>1. UNCHANGED <<method, locks, queue, turns, ending, session, generation, builder, suspending>>
      BY <1>8 DEF Use
    <2>2. CASE closing
      <3>1. Go("control", "idle") /\ UNCHANGED users
        BY <1>8, <2>2 DEF Use
      <3> QED  BY <1>8, <2>1, <2>2, <3>1
    <2>3. CASE ~closing
      <3>1. Go("control", "need") /\ users' = users + 1
        BY <1>8, <2>3 DEF Use
      <3> QED  BY <1>8, <2>1, <2>3, <3>1
    <2> QED  BY <2>2, <2>3
  <1>9. CASE /\ pc["control"] = "ready" /\ Go("control", "unuse")
             /\ UNCHANGED <<method, locks, queue, turns, runtime, ending>>
    BY <1>9
  <1>10. CASE Unuse("control", "idle")
    BY <1>10 DEF Unuse, RuntimeFree
  <1> HIDE DEF QueueInv
  <1> QED  BY <1>2, <1>3, <1>4, <1>5, <1>6, <1>7, <1>8, <1>9, <1>10

\* The thread that closes the bridge throws the head of the queue away.
LEMMA DiscardKeeps == ASSUME QueueInv, CloseDiscards PROVE QueueInv'
  <1>1. pc["close"] = "discard" /\ UNCHANGED <<method, locks, task, runtime, ending>>
    BY DEF CloseDiscards
  <1>2. closing
    BY <1>1 DEF QueueInv, Closings
  <1>3. CASE Go("close", "join_builder") /\ UNCHANGED <<queue, rewindPending>>
    <2> USE DEF QueueInv, QueueTypes, TaskTypes, Handed, Unfinished, Users, Stages, Unbound, Locked,
        Starting, Closings, Suspensions, InPlace, Ended, WorkerPresent, RewindPendingHonest,
        Captures, StdinUses, ControlUses, WorkerUses, InHand, Label, Thread, Go, locks, queue,
        turns, runtime, ending
    <2> QED  BY <1>1, <1>2, <1>3
  <1>4. CASE tasks # <<>> /\ tasks' = Tail(tasks) /\ unfinished' = unfinished - 1 /\ UNCHANGED pc
    <2>1. /\ tasks' \in Seq(Queued) /\ Len(tasks) \in Nat /\ Len(tasks') = Len(tasks) - 1
          /\ \A i \in 1 .. Len(tasks') : i + 1 \in 1 .. Len(tasks) /\ tasks'[i] = tasks[i + 1]
      BY <1>4, TakenHead DEF QueueInv
    <2>2. pc' = pc /\ unfinished' = unfinished - 1 /\ tasks # <<>>
      BY <1>4
    <2> USE DEF QueueInv, QueueTypes, TaskTypes, Handed, Unfinished, Users, Stages, Unbound, Locked,
        Starting, Closings, Suspensions, InPlace, Ended, WorkerPresent, RewindPendingHonest,
        Captures, StdinUses, ControlUses, WorkerUses, InHand, Label, Thread, Go, locks, queue,
        turns, runtime, ending
    <2>11. (QueueTypes /\ TaskTypes /\ Unfinished)'
      BY <1>1, <1>2, <2>1, <2>2
    <2>12. (Handed /\ Users /\ Stages /\ Locked /\ Starting /\ Closings /\ Ended /\ WorkerPresent)'
      BY <1>1, <1>2, <2>1, <2>2
    <2>13. Unbound'
      BY <1>1, <1>2, <2>1, <2>2
    <2>14. Suspensions'
      BY <1>1, <1>2, <2>1, <2>2
    <2>15. InPlace'
      BY <1>1, <1>2, <2>1, <2>2
    <2>16. RewindPendingHonest'
      BY <1>1, <1>2, <2>1, <2>2
    <2> QED  BY <2>11, <2>12, <2>13, <2>14, <2>15, <2>16
  <1> QED  BY <1>3, <1>4 DEF CloseDiscards

LEMMA CloseKeeps == ASSUME QueueInv, CloseBegins \/ CloseSteps PROVE QueueInv'
  <1> USE DEF QueueInv, QueueTypes, TaskTypes, Handed, Unfinished, Users, Stages, Unbound, Locked,
      Starting, Closings, Suspensions, InPlace, Ended, WorkerPresent, RewindPendingHonest, Captures,
      StdinUses, ControlUses, WorkerUses, InHand, Label, Thread, Go, locks, queue, turns, runtime,
      ending
  <1>1. CASE CloseBegins
    BY <1>1 DEF CloseBegins
  <1>2. CASE CloseCancels \/ CloseJoinsBuilder \/ CloseStopsTurn \/ CloseShuts \/ CloseJoinsWorker
    BY <1>2
    DEF CloseCancels, CloseJoinsBuilder, CloseStopsTurn, CloseShuts, CloseJoinsWorker, Constructing
  <1> HIDE DEF QueueInv
  <1> QED  BY <1>1, <1>2, DiscardKeeps DEF CloseSteps

LEMMA QueueInductive == QueueInv /\ [Next]_vars => QueueInv'
  <1>1. ASSUME QueueInv, UNCHANGED vars PROVE QueueInv'
    <2> USE DEF QueueInv, QueueTypes, TaskTypes, Handed, Unfinished, Users, Stages, Unbound, Locked,
        Starting, Closings, Suspensions, InPlace, Ended, WorkerPresent, RewindPendingHonest,
        Captures, StdinUses, ControlUses, WorkerUses, InHand, Label, Thread, Go, locks, queue,
        turns, runtime, ending
    <2> QED  BY <1>1 DEF vars
  <1> QED  BY <1>1, StdinKeeps, WorkerKeeps, SessionKeeps, ControlKeeps, CloseKeeps DEF Next

\* What the users of the bridge rely on.
SessionGuarded ==
    SuspendAlone /\ CapturedIsCurrent /\ ClosedForGood /\ WorkerPresent /\ RewindPendingHonest

LEMMA QueueGives == QueueInv => SessionGuarded
  BY MadeTasks DEF QueueInv, QueueTypes, TaskTypes, Handed, Unfinished, Users, Stages, Unbound,
      Locked, Starting, Closings, Suspensions, InPlace, Ended, WorkerPresent, RewindPendingHonest,
      Captures, StdinUses, ControlUses, WorkerUses, InHand, Label, Thread, Go, locks, queue, turns,
      runtime, ending, SessionGuarded, SuspendAlone, CapturedIsCurrent, ClosedForGood

\* However many requests come, sessions are built and closes are tried: a session is suspended only
\* while nobody is inside it, a task that holds on to a session runs on the one in place, a closed
\* bridge stays closed, what is queued has a worker, and prompts are refused because of a rewind only
\* while there is one (_runtime_use, suspend_if_idle, close, _enqueue_task, _worker_loop,
\* _queue_rewind).
THEOREM SessionsAreGuarded == Spec => []SessionGuarded
  BY QueueInitially, QueueInductive, QueueGives, PTL DEF Spec

-----------------------------------------------------------------------------
(* The files attached to messages (Attachments).                           *)

Entry == [path : {"inside", "outside", "clipboard"}, digest : F!Content, cached : BOOLEAN]
Doing == [at : {"idle", "hashed", "copied", "collecting"}, goal : {"none", "stage", "submit"},
          path : F!Path \cup {"none"}, digest : F!Content \cup {"none"}, new : Nat, ids : SUBSET F!Id]
Sent == [kind : {"turn", "external"}, ids : SUBSET F!Id, path : {"none", "outside"},
         entries : SUBSET (F!Id \X Entry)]

FileTypes ==
    /\ file \in [F!Path -> F!Content \cup {"gone"}] /\ staged \in [F!Id -> Entry \cup {F!NoEntry}]
    /\ dedupe \in [F!Content -> Nat] /\ copy \in [F!Id -> F!Content \cup {"none"}]
    /\ chips \subseteq F!Id
    /\ work \in [F!Thread -> Doing] /\ messages \in Seq(Sent)
    /\ used \in [ids : Nat, edits : Nat, turns : Nat]

\* An id that was not given out, or whose entry is still to come, has no entry; it belongs to one
\* thread, and the copy it needs is there.
Unregistered ==
    /\ \A i \in F!Id : i > used.ids => staged[i] = F!NoEntry
    /\ \A t \in F!Thread :
          work[t].at = "copied" =>
              /\ work[t].new \in F!Id /\ work[t].new <= used.ids /\ staged[work[t].new] = F!NoEntry
              /\ work[t].path = "outside" => copy[work[t].new] # "none"
    /\ work["stdin"].at = "copied" /\ work["worker"].at = "copied" =>
          work["stdin"].new # work["worker"].new

\* What is being staged was there, and what lies outside was approved or picked.
Staging ==
    \A t \in F!Thread :
        work[t].at \in {"hashed", "copied"} =>
            /\ work[t].path \in F!Path /\ work[t].digest \in F!Content
            /\ work[t].path = "outside" => picked

\* What is found by its digest is there.
KnownIsStaged ==
    \A c \in F!Content : dedupe[c] # 0 => dedupe[c] \in F!Id /\ staged[dedupe[c]].digest = c

\* An entry is cached unless its file lies inside the workspace, and reads what was attached unless
\* that file changed.
Readings ==
    \A i \in F!Id :
        staged[i] # F!NoEntry =>
            /\ staged[i].cached <=> staged[i].path # "inside"
            /\ i \in edited \cup removed \/ F!Readable(staged[i], i) = staged[i].digest

\* A message that waits for an approval names a file outside; a turn that waits holds the
\* entries of the attachments that are still there.
Holds(m) ==
    /\ m.kind = "external" => m.path = "outside"
    /\ \A e \in m.entries :
          /\ e[1] <= used.ids
          /\ e[1] \notin removed => staged[e[1]] = e[2]
          /\ e[2].cached <=> e[2].path # "inside"
          /\ e[1] \in edited \cup removed \/ F!Readable(e[2], e[1]) = e[2].digest

Waiting == \A k \in 1 .. Len(messages) : Holds(messages[k])

FilesInv ==
    /\ FileTypes /\ Unregistered /\ Staging /\ KnownIsStaged /\ Readings /\ Waiting
    /\ F!CopiesAreKept /\ F!TurnsAreWithinLimits /\ F!TurnsReadTheirFiles

\* The cardinality of that module is the one the library speaks of.
LEMMA SameCardinality == ASSUME NEW S PROVE F!Cardinality(S) = Cardinality(S)
  BY DEF F!Cardinality, Cardinality

\* How the work of a thread changes.
LEMMA WorkStays ==
    ASSUME FilesInv, NEW t \in F!Thread, NEW d \in Doing, work' = [work EXCEPT ![t] = d]
    PROVE  work' \in [F!Thread -> Doing] /\ work'[t] = d /\ \A u \in F!Thread \ {t} : work'[u] = work[u]
  BY DEF FilesInv, FileTypes

LEMMA IdleDoing == F!Idle \in Doing /\ F!Idle.at = "idle" /\ F!Idle.path = "none" /\ F!Idle.new = 0
  BY DEF F!Idle, Doing

LEMMA BeginWorks ==
    ASSUME FilesInv, NEW t \in F!Thread, NEW goal \in {"stage", "submit"}, NEW p \in F!Path,
           NEW ids \in SUBSET F!Id, F!Begin(t, goal, p, ids)
    PROVE  /\ work' \in [F!Thread -> Doing] /\ \A u \in F!Thread \ {t} : work'[u] = work[u]
           /\ work'[t].at = "hashed" /\ work'[t].path = p /\ work'[t].digest \in F!Content
  <1> DEFINE d == [at |-> "hashed", goal |-> goal, path |-> p, digest |-> file[p], new |-> 0,
                   ids |-> ids]
  <1>1. d \in Doing /\ d.at = "hashed" /\ d.path = p /\ d.digest \in F!Content
    BY DEF F!Begin, Doing
  <1>2. work' = [work EXCEPT ![t] = d]
    BY DEF F!Begin
  <1> HIDE DEF d
  <1> QED  BY <1>1, <1>2, WorkStays

LEMMA Collected ==
    ASSUME NEW d \in Doing, NEW ids \in SUBSET F!Id
    PROVE  LET c == [d EXCEPT !.at = "collecting", !.goal = "submit", !.ids = ids]
           IN  c \in Doing /\ c.at = "collecting"
  BY DEF Doing

LEMMA CollectingWorks ==
    ASSUME FilesInv, NEW t \in F!Thread, NEW ids \in SUBSET F!Id, F!Collecting(t, ids)
    PROVE  /\ work' \in [F!Thread -> Doing] /\ \A u \in F!Thread \ {t} : work'[u] = work[u]
           /\ work'[t].at = "collecting"
  <1> DEFINE d == [F!Idle EXCEPT !.at = "collecting", !.goal = "submit", !.ids = ids]
  <1>1. d \in Doing /\ d.at = "collecting"
    BY Collected, IdleDoing
  <1>2. work' = [work EXCEPT ![t] = d]
    BY DEF F!Collecting
  <1> HIDE DEF d
  <1> QED  BY <1>1, <1>2, WorkStays

LEMMA HaveWorks ==
    ASSUME FilesInv, NEW t \in F!Thread, NEW i \in F!Id, F!Have(t, i)
    PROVE  /\ work' \in [F!Thread -> Doing] /\ \A u \in F!Thread \ {t} : work'[u] = work[u]
           /\ work'[t].at \in {"idle", "collecting"} /\ chips' \subseteq F!Id
  <1>1. work[t].ids \cup {i} \in SUBSET F!Id
    BY DEF FilesInv, FileTypes, Doing
  <1>2. CASE work[t].goal = "stage"
    <2>1. work' = [work EXCEPT ![t] = F!Idle] /\ chips' = chips \cup {i}
      BY <1>2 DEF F!Have
    <2> QED  BY <2>1, WorkStays, IdleDoing DEF FilesInv, FileTypes
  <1>3. CASE work[t].goal # "stage"
    <2>1. F!Collecting(t, work[t].ids \cup {i}) /\ chips' = chips
      BY <1>3 DEF F!Have, F!Collecting
    <2> QED  BY <1>1, <2>1, CollectingWorks DEF FilesInv, FileTypes
  <1> QED  BY <1>2, <1>3

\* A step that only moves a thread to a stage without a registration.
LEMMA MovesKeep ==
    ASSUME FilesInv, NEW t \in F!Thread, work' \in [F!Thread -> Doing],
           \A u \in F!Thread \ {t} : work'[u] = work[u],
           \/ work'[t].at \in {"idle", "collecting"}
           \/ /\ work'[t].at = "hashed" /\ work'[t].path \in F!Path /\ work'[t].digest \in F!Content
              /\ work'[t].path = "outside" => picked',
           picked => picked', UNCHANGED <<staged, copy>>, used'.ids = used.ids
    PROVE  Unregistered' /\ Staging'
  BY DEF FilesInv, Unregistered, Staging, F!Thread

\* What waits after a step: what waited, and perhaps one message more.
Waits(new) ==
    /\ messages' \in Seq(Sent)
    /\ \A k \in 1 .. Len(messages') :
          messages'[k] = new \/ \E j \in 1 .. Len(messages) : messages'[k] = messages[j]

LEMMA Appended ==
    ASSUME FilesInv, NEW m \in Sent, messages' = Append(messages, m) PROVE Waits(m)
  BY DEF FilesInv, FileTypes, Waits

LEMMA Taken ==
    ASSUME FilesInv, messages # <<>>, messages' = Tail(messages)
    PROVE  Waits(Head(messages)) /\ Head(messages) = messages[1] /\ 1 \in 1 .. Len(messages)
  BY DEF FilesInv, FileTypes, Waits

LEMMA Unmoved == ASSUME FilesInv, messages' = messages PROVE \A m : Waits(m)
  BY DEF FilesInv, FileTypes, Waits

\* A message, as it was accepted.
Within(m) ==
    m.kind = "turn" =>
        /\ F!Cardinality(m.ids) <= F!MaxAttachments
        /\ F!Cardinality({e \in m.entries : e[2].digest = "b"}) > 0 => F!Cardinality(m.ids) = 1
        /\ F!NoEntry \notin {e[2] : e \in m.entries}

LEMMA WithinStays ==
    ASSUME FilesInv, NEW m, Within(m), Waits(m) PROVE F!TurnsAreWithinLimits'
  <1>1. DOMAIN messages = 1 .. Len(messages) /\ DOMAIN messages' = 1 .. Len(messages')
    BY DEF FilesInv, FileTypes, Waits
  <1>2. \A j \in 1 .. Len(messages) : Within(messages[j])
    BY <1>1 DEF FilesInv, F!TurnsAreWithinLimits, Within
  <1>3. \A k \in 1 .. Len(messages') : Within(messages'[k])
    BY <1>2 DEF Waits
  <1> QED  BY <1>1, <1>3 DEF F!TurnsAreWithinLimits, Within

LEMMA WaitingStays ==
    ASSUME FilesInv, NEW new, Waits(new), \A m \in Sent : Holds(m) => Holds(m)', Holds(new)'
    PROVE  Waiting'
  BY DEF FilesInv, FileTypes, Waiting, Waits

\* An entry that waits still reads what it read, when nothing was taken from it.
LEMMA HoldsStays ==
    ASSUME FilesInv, NEW m \in Sent, Holds(m), used.ids <= used'.ids, used'.ids \in Nat,
           removed \subseteq removed', edited \subseteq edited',
           \A i \in F!Id : \/ staged'[i] = staged[i] /\ copy'[i] = copy[i]
                           \/ i \in removed'
                           \/ i > used.ids \/ (staged[i] = F!NoEntry /\ copy'[i] = copy[i]),
           file' = file
    PROVE  Holds(m)'
  <1> SUFFICES ASSUME NEW e \in m.entries
               PROVE  /\ e[1] <= used'.ids
                      /\ e[1] \notin removed' => staged'[e[1]] = e[2]
                      /\ e[2].cached <=> e[2].path # "inside"
                      /\ e[1] \in edited' \cup removed' \/ F!Readable(e[2], e[1])' = e[2].digest
    BY DEF Holds
  <1>1. e[1] \in F!Id /\ e[2] \in Entry /\ e[2] # F!NoEntry
    BY DEF Sent, Entry, F!NoEntry, F!Content
  <1>2. /\ e[1] <= used.ids
        /\ e[1] \notin removed => staged[e[1]] = e[2]
        /\ e[2].cached <=> e[2].path # "inside"
        /\ e[1] \in edited \cup removed \/ F!Readable(e[2], e[1]) = e[2].digest
    BY DEF Holds
  <1>3. CASE e[1] \in removed'
    BY <1>1, <1>2, <1>3 DEF FilesInv, FileTypes, F!Id
  <1>4. CASE e[1] \notin removed'
    <2>1. staged[e[1]] = e[2] /\ e[1] \notin removed
      BY <1>2, <1>4
    <2>2. copy'[e[1]] = copy[e[1]] /\ staged'[e[1]] = staged[e[1]]
      BY <1>1, <1>2, <1>4, <2>1 DEF FilesInv, FileTypes, F!Id
    <2> QED  BY <1>1, <1>2, <2>1, <2>2 DEF F!Readable, FilesInv, FileTypes, F!Id
  <1> QED  BY <1>3, <1>4

\* A step that leaves the entries alone.
LEMMA EntriesStay ==
    ASSUME FilesInv, UNCHANGED <<file, staged, dedupe, copy, edited, removed>>, used'.ids = used.ids,
           picked => picked'
    PROVE  /\ KnownIsStaged' /\ Readings' /\ F!CopiesAreKept'
           /\ \A m : Holds(m) => Holds(m)'
  BY DEF FilesInv, KnownIsStaged, Readings, F!CopiesAreKept, Holds, F!Readable

LEMMA FilesInitially == F!Init => FilesInv
  <1> SUFFICES ASSUME F!Init PROVE FilesInv
    OBVIOUS
  <1>1. FileTypes
    BY IdleDoing DEF F!Init, FileTypes, F!Content
  <1>2. Unregistered /\ Staging /\ KnownIsStaged /\ Readings /\ Waiting
    BY IdleDoing DEF F!Init, Unregistered, Staging, KnownIsStaged, Readings, Waiting, F!Thread
  <1>3. F!CopiesAreKept /\ F!TurnsReadTheirFiles
    BY DEF F!Init, F!CopiesAreKept, F!NoEntry, F!TurnsReadTheirFiles
  <1>4. F!TurnsAreWithinLimits
    BY DEF F!Init, F!TurnsAreWithinLimits
  <1> QED  BY <1>1, <1>2, <1>3, <1>4 DEF FilesInv

LEMMA Counted ==
    ASSUME NEW u \in [ids : Nat, edits : Nat, turns : Nat], NEW n \in Nat
    PROVE  /\ [u EXCEPT !.edits = @ + 1] \in [ids : Nat, edits : Nat, turns : Nat]
           /\ [u EXCEPT !.edits = @ + 1].ids = u.ids
           /\ [u EXCEPT !.turns = @ + 1] \in [ids : Nat, edits : Nat, turns : Nat]
           /\ [u EXCEPT !.turns = @ + 1].ids = u.ids
           /\ [u EXCEPT !.ids = n] \in [ids : Nat, edits : Nat, turns : Nat]
           /\ [u EXCEPT !.ids = n].ids = n
  OBVIOUS

\* A program outside changes a file.
LEMMA EditKeeps ==
    ASSUME FilesInv, NEW p \in F!Path, NEW c \in F!Content \cup {"gone"}, F!Edit(p, c) PROVE FilesInv'
  <1>1. /\ file' = [file EXCEPT ![p] = c] /\ used' = [used EXCEPT !.edits = @ + 1]
        /\ \A i \in F!Id : staged[i].path = p /\ ~staged[i].cached => i \in edited'
        /\ edited \subseteq edited'
        /\ UNCHANGED <<staged, dedupe, copy, chips, work, messages, removed, picked, read>>
    BY DEF F!Edit
  <1>2. used' \in [ids : Nat, edits : Nat, turns : Nat] /\ used'.ids = used.ids
    BY <1>1, Counted DEF FilesInv, FileTypes
  <1>3. FileTypes'
    BY <1>1, <1>2 DEF FilesInv, FileTypes
  <1>4. Unregistered' /\ Staging' /\ KnownIsStaged'
    BY <1>1, <1>2 DEF FilesInv, Unregistered, Staging, KnownIsStaged
  <1>5. ASSUME NEW i \in F!Id, NEW e \in Entry, e = staged[i], e.cached <=> e.path # "inside",
               i \in edited \cup removed \/ F!Readable(e, i) = e.digest
        PROVE  i \in edited' \cup removed' \/ F!Readable(e, i)' = e.digest
    BY <1>1, <1>5 DEF F!Readable, Entry, FilesInv, FileTypes, F!Path
  <1>6. Readings'
    BY <1>1, <1>5 DEF FilesInv, Readings, FileTypes
  <1>7. \A m \in Sent : Holds(m) => Holds(m)'
    <2> SUFFICES ASSUME NEW m \in Sent, Holds(m), NEW e \in m.entries
                 PROVE  /\ e[1] <= used'.ids
                        /\ e[1] \notin removed' => staged'[e[1]] = e[2]
                        /\ e[2].cached <=> e[2].path # "inside"
                        /\ e[1] \in edited' \cup removed' \/ F!Readable(e[2], e[1])' = e[2].digest
      BY DEF Holds
    <2>1. e[1] \in F!Id /\ e[2] \in Entry
      BY DEF Sent
    <2>2. /\ e[1] <= used.ids
          /\ e[1] \notin removed => staged[e[1]] = e[2]
          /\ e[2].cached <=> e[2].path # "inside"
          /\ e[1] \in edited \cup removed \/ F!Readable(e[2], e[1]) = e[2].digest
      BY DEF Holds
    <2> QED  BY <1>1, <1>2, <1>5, <2>1, <2>2
  <1>8. Waiting'
    BY <1>1, <1>7 DEF FilesInv, FileTypes, Waiting
  <1>9. F!CopiesAreKept' /\ F!TurnsAreWithinLimits' /\ F!TurnsReadTheirFiles'
    BY <1>1 DEF FilesInv, F!CopiesAreKept, F!TurnsAreWithinLimits, F!TurnsReadTheirFiles
  <1> QED  BY <1>3, <1>4, <1>6, <1>8, <1>9 DEF FilesInv

\* A step that moves a thread and touches neither the entries nor what was read.
LEMMA ThreadKeeps ==
    ASSUME FilesInv, NEW t \in F!Thread, work' \in [F!Thread -> Doing],
           \A u \in F!Thread \ {t} : work'[u] = work[u],
           \/ work'[t].at \in {"idle", "collecting"}
           \/ /\ work'[t].at = "hashed" /\ work'[t].path \in F!Path /\ work'[t].digest \in F!Content
              /\ work'[t].path = "outside" => picked',
           picked => picked', UNCHANGED <<file, staged, dedupe, copy, edited, removed, read>>,
           used' \in [ids : Nat, edits : Nat, turns : Nat], used'.ids = used.ids, chips' \subseteq F!Id,
           NEW new, Waits(new), Within(new), Holds(new)
    PROVE  FilesInv'
  <1>1. FileTypes'
    BY DEF FilesInv, FileTypes, Waits
  <1>2. Unregistered' /\ Staging'
    BY MovesKeep
  <1>3. KnownIsStaged' /\ Readings' /\ F!CopiesAreKept' /\ \A m : Holds(m) => Holds(m)'
    BY EntriesStay
  <1>4. Waiting'
    BY <1>3, WaitingStays
  <1>5. F!TurnsAreWithinLimits' /\ F!TurnsReadTheirFiles'
    BY WithinStays DEF FilesInv, F!TurnsReadTheirFiles
  <1> QED  BY <1>1, <1>2, <1>3, <1>4, <1>5 DEF FilesInv

LEMMA OldMessage ==
    ASSUME FilesInv, NEW k \in 1 .. Len(messages)
    PROVE  Within(messages[k]) /\ Holds(messages[k]) /\ messages[k] \in Sent
  <1>1. DOMAIN messages = 1 .. Len(messages)
    BY DEF FilesInv, FileTypes
  <1>2. Within(messages[k])
    BY <1>1 DEF FilesInv, F!TurnsAreWithinLimits, Within
  <1> QED  BY <1>2 DEF FilesInv, FileTypes, Waiting

Nothing == F!Message("external", {}, "outside", {})
LEMMA NothingSaid == Nothing \in Sent /\ Within(Nothing) /\ Holds(Nothing)
  BY DEF Nothing, F!Message, Sent, Within, Holds

\* stage_attachments.
LEMMA StagePathKeeps == ASSUME FilesInv, NEW p \in F!Path, F!StagePath(p) PROVE FilesInv'
  <1>1. /\ F!Begin("stdin", "stage", p, {})
        /\ picked => picked'
        /\ p = "outside" => picked'
        /\ UNCHANGED <<file, staged, dedupe, copy, chips, messages, used, edited, removed, read>>
    BY DEF F!StagePath, F!External
  <1>2. "stdin" \in F!Thread
    BY DEF F!Thread
  <1>3. chips' \subseteq F!Id /\ used' \in [ids : Nat, edits : Nat, turns : Nat]
    BY <1>1 DEF FilesInv, FileTypes
  <1> QED  BY <1>1, <1>2, <1>3, BeginWorks, ThreadKeeps, Unmoved, NothingSaid

\* submit.
LEMMA SubmitKeeps ==
    ASSUME FilesInv, NEW p \in F!Path \cup {"none"}, F!Submit(p) PROVE FilesInv'
  <1>1. /\ used' = [used EXCEPT !.turns = @ + 1]
        /\ UNCHANGED <<file, staged, dedupe, copy, chips, edited, removed, picked, read>>
        /\ work["stdin"] = F!Idle
    BY DEF F!Submit
  <1>2. "stdin" \in F!Thread /\ chips \in SUBSET F!Id /\ chips' \subseteq F!Id
    BY <1>1 DEF F!Thread, FilesInv, FileTypes
  <1>3. used' \in [ids : Nat, edits : Nat, turns : Nat] /\ used'.ids = used.ids
    BY <1>1, Counted DEF FilesInv, FileTypes
  <1>4. CASE p = "outside" /\ file[p] # "gone"
    <2> DEFINE m == F!Message("external", chips, p, {})
    <2>1. messages' = Append(messages, m) /\ UNCHANGED work
      BY <1>4 DEF F!Submit
    <2>2. m \in Sent /\ Within(m) /\ Holds(m)
      BY <1>2, <1>4 DEF F!Message, Sent, Within, Holds
    <2>3. Waits(m)
      BY <2>1, <2>2, Appended
    <2>4. work' \in [F!Thread -> Doing] /\ work'["stdin"].at = "idle"
      BY <1>1, <2>1, IdleDoing DEF FilesInv, FileTypes
    <2> HIDE DEF m
    <2> QED  BY <1>1, <1>2, <1>3, <2>1, <2>2, <2>3, <2>4, ThreadKeeps
  <1>5. CASE p = "inside" /\ file[p] # "gone"
    <2>1. F!Begin("stdin", "submit", p, chips) /\ UNCHANGED messages
      BY <1>5 DEF F!Submit
    <2> QED  BY <1>1, <1>2, <1>3, <1>5, <2>1, BeginWorks, ThreadKeeps, Unmoved, NothingSaid
  <1>6. CASE ~(p = "outside" /\ file[p] # "gone") /\ ~(p = "inside" /\ file[p] # "gone")
    <2>1. F!Collecting("stdin", chips) /\ UNCHANGED messages
      BY <1>6 DEF F!Submit
    <2> QED  BY <1>1, <1>2, <1>3, <2>1, CollectingWorks, ThreadKeeps, Unmoved, NothingSaid
  <1> QED  BY <1>4, <1>5, <1>6

\* The worker asks for a file outside.
LEMMA AskKeeps == ASSUME FilesInv, NEW approved \in BOOLEAN, F!Ask(approved) PROVE FilesInv'
  <1> DEFINE m == Head(messages)
  <1>1. /\ messages # <<>> /\ m.kind = "external" /\ messages' = Tail(messages)
        /\ UNCHANGED <<file, staged, dedupe, copy, chips, used, edited, removed, read>>
        /\ work["worker"] = F!Idle
    BY DEF F!Ask
  <1>2. m = messages[1] /\ 1 \in 1 .. Len(messages) /\ Waits(m)
    BY <1>1, Taken
  <1>3. m \in Sent /\ Within(m) /\ Holds(m)
    BY <1>2, OldMessage
  <1>4. /\ "worker" \in F!Thread /\ chips' \subseteq F!Id
        /\ used' \in [ids : Nat, edits : Nat, turns : Nat]
    BY <1>1 DEF F!Thread, FilesInv, FileTypes
  <1>5. m.ids \in SUBSET F!Id
    BY <1>3 DEF Sent
  <1>6. CASE approved /\ file[m.path] # "gone"
    <2>1. F!Begin("worker", "submit", m.path, m.ids) /\ picked'
      BY <1>6 DEF F!Ask
    <2>2. m.path \in F!Path
      BY <1>1, <1>3 DEF Holds, F!Path
    <2> HIDE DEF m
    <2> QED  BY <1>1, <1>2, <1>3, <1>4, <1>5, <2>1, <2>2, BeginWorks, ThreadKeeps
  <1>7. CASE approved /\ file[m.path] = "gone"
    <2>1. F!Collecting("worker", m.ids) /\ picked'
      BY <1>7 DEF F!Ask
    <2> HIDE DEF m
    <2> QED  BY <1>1, <1>2, <1>3, <1>4, <1>5, <2>1, CollectingWorks, ThreadKeeps
  <1>8. CASE ~approved
    <2>1. UNCHANGED <<work, picked>>
      BY <1>8 DEF F!Ask
    <2>2. work' \in [F!Thread -> Doing] /\ work'["worker"].at = "idle"
      BY <1>1, <2>1, IdleDoing DEF FilesInv, FileTypes
    <2> HIDE DEF m
    <2> QED  BY <1>1, <1>2, <1>3, <1>4, <2>1, <2>2, ThreadKeeps
  <1> QED  BY <1>6, <1>7, <1>8

\* The worker runs a turn.
LEMMA RunKeeps == ASSUME FilesInv, F!Run PROVE FilesInv'
  <1> DEFINE m == Head(messages)
  <1>1. /\ messages # <<>> /\ messages' = Tail(messages)
        /\ read' = {<<e[1], e[2].digest, F!Readable(e[2], e[1])>> : e \in m.entries}
        /\ UNCHANGED <<file, staged, dedupe, copy, chips, work, used, edited, removed, picked>>
    BY DEF F!Run
  <1>2. m = messages[1] /\ 1 \in 1 .. Len(messages) /\ Waits(m)
    BY <1>1, Taken
  <1>3. Within(m) /\ Holds(m)
    BY <1>2, OldMessage
  <1>4. F!TurnsReadTheirFiles'
    <2> SUFFICES ASSUME NEW r \in read' PROVE r[1] \in edited \cup removed \/ r[2] = r[3]
      BY <1>1 DEF F!TurnsReadTheirFiles
    <2>1. PICK e \in m.entries : r = <<e[1], e[2].digest, F!Readable(e[2], e[1])>>
      BY <1>1
    <2>2. e[1] \in edited \cup removed \/ F!Readable(e[2], e[1]) = e[2].digest
      BY <1>3 DEF Holds
    <2> QED  BY <2>1, <2>2
  <1> HIDE DEF m
  <1>5. KnownIsStaged' /\ Readings' /\ F!CopiesAreKept' /\ \A n : Holds(n) => Holds(n)'
    BY <1>1, EntriesStay
  <1>6. Waiting' /\ F!TurnsAreWithinLimits'
    BY <1>2, <1>3, <1>5, WaitingStays, WithinStays
  <1>7. FileTypes' /\ Unregistered' /\ Staging'
    BY <1>1, <1>2 DEF FilesInv, FileTypes, Unregistered, Staging, Waits
  <1> QED  BY <1>4, <1>5, <1>6, <1>7 DEF FilesInv

\* The session is opened again.
LEMMA ReopenKeeps == ASSUME FilesInv, F!Reopen PROVE FilesInv'
  <1>1. /\ messages = <<>> /\ \A t \in F!Thread : work[t] = F!Idle
        /\ staged' = [i \in F!Id |-> F!NoEntry] /\ dedupe' = [c \in F!Content |-> 0]
        /\ UNCHANGED <<file, copy, chips, work, messages, used, edited, removed, picked, read>>
    BY DEF F!Reopen
  <1>2. \A i \in F!Id : staged'[i] = F!NoEntry /\ ~staged'[i].cached /\ staged'[i].path = "none"
    BY <1>1 DEF F!NoEntry
  <1>3. FileTypes'
    BY <1>1 DEF FilesInv, FileTypes
  <1>4. Unregistered' /\ Staging' /\ KnownIsStaged' /\ Readings' /\ Waiting'
    BY <1>1, <1>2, IdleDoing DEF Unregistered, Staging, KnownIsStaged, Readings, Waiting, F!Thread
  <1>5. F!CopiesAreKept' /\ F!TurnsAreWithinLimits' /\ F!TurnsReadTheirFiles'
    BY <1>1, <1>2 DEF FilesInv, F!CopiesAreKept, F!TurnsAreWithinLimits, F!TurnsReadTheirFiles
  <1> QED  BY <1>3, <1>4, <1>5 DEF FilesInv

\* An attachment goes.
LEMMA RemoveKeeps == ASSUME FilesInv, NEW i \in F!Id, F!Remove(i) PROVE FilesInv'
  <1>1. /\ chips' \subseteq F!Id
        /\ UNCHANGED <<file, work, messages, used, edited, picked, read>>
    BY DEF F!Remove, FilesInv, FileTypes
  <1>2. CASE staged[i] = F!NoEntry
    <2>1. UNCHANGED <<staged, dedupe, copy, removed>>
      BY <1>2 DEF F!Remove
    <2>2. FileTypes' /\ Unregistered' /\ Staging'
      BY <1>1, <2>1 DEF FilesInv, FileTypes, Unregistered, Staging
    <2>3. KnownIsStaged' /\ Readings' /\ F!CopiesAreKept' /\ \A m : Holds(m) => Holds(m)'
      BY <1>1, <2>1, EntriesStay
    <2>4. Waiting' /\ F!TurnsAreWithinLimits' /\ F!TurnsReadTheirFiles'
      BY <1>1, <2>1, <2>3, Unmoved, NothingSaid, WaitingStays, WithinStays
      DEF FilesInv, F!TurnsReadTheirFiles
    <2> QED  BY <2>2, <2>3, <2>4 DEF FilesInv
  <1>3. CASE staged[i] # F!NoEntry
    <2>1. /\ staged' = [staged EXCEPT ![i] = F!NoEntry]
          /\ dedupe' = [dedupe EXCEPT ![staged[i].digest] = 0]
          /\ removed' = removed \cup {i}
          /\ \A j \in F!Id \ {i} : copy'[j] = copy[j]
          /\ copy' \in [F!Id -> F!Content \cup {"none"}]
      BY <1>3 DEF F!Remove, F!Forget, FilesInv, FileTypes
    <2>2. staged[i] \in Entry /\ staged[i].digest \in F!Content
      BY <1>3 DEF FilesInv, FileTypes, Entry
    <2>3. FileTypes'
      BY <1>1, <2>1, <2>2 DEF FilesInv, FileTypes
    <2>4. Unregistered' /\ Staging'
      BY <1>1, <1>3, <2>1 DEF FilesInv, FileTypes, Unregistered, Staging
    <2>5. KnownIsStaged'
      BY <1>1, <2>1, <2>2 DEF FilesInv, FileTypes, KnownIsStaged
    <2>6. Readings'
      BY <1>1, <2>1 DEF FilesInv, FileTypes, Readings, F!Readable
    <2>7. F!CopiesAreKept'
      BY <1>1, <2>1 DEF FilesInv, FileTypes, F!CopiesAreKept, F!NoEntry
    <2>8. \A m \in Sent : Holds(m) => Holds(m)'
      <3>1. \A j \in F!Id : (staged'[j] = staged[j] /\ copy'[j] = copy[j]) \/ j \in removed'
        BY <2>1 DEF FilesInv, FileTypes
      <3>2. /\ used.ids <= used'.ids /\ used'.ids \in Nat
            /\ removed \subseteq removed' /\ edited \subseteq edited'
        BY <1>1, <2>1 DEF FilesInv, FileTypes
      <3> QED  BY <1>1, <3>1, <3>2, HoldsStays
    <2>9. Waiting'
      BY <1>1, <2>8 DEF FilesInv, FileTypes, Waiting
    <2>10. F!TurnsAreWithinLimits' /\ F!TurnsReadTheirFiles'
      BY <1>1, <2>1 DEF FilesInv, F!TurnsAreWithinLimits, F!TurnsReadTheirFiles
    <2> QED  BY <2>3, <2>4, <2>5, <2>6, <2>7, <2>9, <2>10 DEF FilesInv
  <1> QED  BY <1>2, <1>3

\* A new entry for a new id, whose file or copy reads as it was attached or counts as changed.
LEMMA RegisteringKeeps ==
    ASSUME FilesInv, NEW new \in F!Id, NEW entry \in Entry,
           staged[new] = F!NoEntry, new <= used'.ids, used.ids <= used'.ids, used'.ids \in Nat,
           staged' = [staged EXCEPT ![new] = entry],
           dedupe' = [dedupe EXCEPT ![entry.digest] = new],
           copy' \in [F!Id -> F!Content \cup {"none"}],
           \A i \in F!Id : i # new => copy'[i] = copy[i],
           copy' = copy \/ new > used.ids,
           entry.cached <=> entry.path # "inside",
           entry.cached => copy'[new] # "none",
           entry.path = "outside" => picked',
           edited \subseteq edited', new \in edited' \/ F!Readable(entry, new)' = entry.digest,
           picked => picked',
           UNCHANGED <<file, messages, removed, read>>
    PROVE  /\ KnownIsStaged' /\ Readings' /\ Waiting' /\ F!CopiesAreKept'
           /\ F!TurnsAreWithinLimits' /\ F!TurnsReadTheirFiles'
           /\ staged' \in [F!Id -> Entry \cup {F!NoEntry}] /\ dedupe' \in [F!Content -> Nat]
  <1>1. entry.digest \in F!Content
    BY DEF Entry
  <1>2. staged' \in [F!Id -> Entry \cup {F!NoEntry}] /\ dedupe' \in [F!Content -> Nat]
    BY <1>1 DEF FilesInv, FileTypes, F!Id
  <1>3. KnownIsStaged'
    <2>1. \A c \in F!Content : dedupe[c] # 0 => dedupe[c] # new
      BY DEF FilesInv, KnownIsStaged, F!NoEntry, F!Content
    <2> QED  BY <1>1, <2>1 DEF FilesInv, FileTypes, KnownIsStaged
  <1>4. Readings'
    <2> SUFFICES ASSUME NEW i \in F!Id, staged'[i] # F!NoEntry
                 PROVE  /\ staged'[i].cached <=> staged'[i].path # "inside"
                        /\ i \in edited' \cup removed' \/ F!Readable(staged[i], i)' = staged'[i].digest
      BY DEF Readings
    <2>1. CASE i = new
      BY <2>1 DEF FilesInv, FileTypes
    <2>2. CASE i # new
      BY <2>2 DEF FilesInv, FileTypes, Readings, F!Readable
    <2> QED  BY <2>1, <2>2
  <1>5. \A m \in Sent : Holds(m) => Holds(m)'
    <2>1. \A i \in F!Id : \/ staged'[i] = staged[i] /\ copy'[i] = copy[i]
                          \/ i > used.ids \/ (staged[i] = F!NoEntry /\ copy'[i] = copy[i])
      BY DEF FilesInv, FileTypes
    <2> QED  BY <2>1, HoldsStays
  <1>6. Waiting'
    BY <1>5, Unmoved, NothingSaid, WaitingStays DEF FilesInv, FileTypes, Waiting
  <1>7. F!CopiesAreKept'
    BY DEF FilesInv, FileTypes, F!CopiesAreKept
  <1>8. F!TurnsAreWithinLimits' /\ F!TurnsReadTheirFiles'
    BY Unmoved, NothingSaid, WithinStays DEF FilesInv, F!TurnsReadTheirFiles
  <1> QED  BY <1>2, <1>3, <1>4, <1>6, <1>7, <1>8

\* A picture from the clipboard.
LEMMA StageBytesKeeps == ASSUME FilesInv, NEW c \in F!Content, F!StageBytes(c) PROVE FilesInv'
  <1>1. UNCHANGED <<file, work, messages, edited, removed, picked, read>>
    BY DEF F!StageBytes
  <1>2. CASE dedupe[c] # 0
    <2>1. chips' = chips \cup {dedupe[c]} /\ UNCHANGED <<staged, dedupe, copy, used>>
      BY <1>2 DEF F!StageBytes
    <2>2. FileTypes' /\ Unregistered' /\ Staging'
      BY <1>1, <1>2, <2>1 DEF FilesInv, FileTypes, Unregistered, Staging, KnownIsStaged
    <2>3. KnownIsStaged' /\ Readings' /\ F!CopiesAreKept' /\ \A m : Holds(m) => Holds(m)'
      BY <1>1, <2>1, EntriesStay
    <2>4. Waiting' /\ F!TurnsAreWithinLimits' /\ F!TurnsReadTheirFiles'
      BY <1>1, <2>1, <2>3, Unmoved, NothingSaid, WaitingStays, WithinStays
      DEF FilesInv, F!TurnsReadTheirFiles
    <2> QED  BY <2>2, <2>3, <2>4 DEF FilesInv
  <1>3. CASE dedupe[c] = 0
    <2>0. PICK new, entry :
            /\ new = used.ids + 1
            /\ entry = [path |-> "clipboard", digest |-> c, cached |-> TRUE]
      OBVIOUS
    <2>1. /\ new <= MaxIds /\ used' = [used EXCEPT !.ids = new]
          /\ staged' = [staged EXCEPT ![new] = entry]
          /\ dedupe' = [dedupe EXCEPT ![c] = new] /\ copy' = [copy EXCEPT ![new] = c]
          /\ chips' = chips \cup {new}
      BY <1>3, <2>0 DEF F!StageBytes
    <2>2. used \in [ids : Nat, edits : Nat, turns : Nat] /\ used.ids \in Nat
      BY DEF FilesInv, FileTypes
    <2>3. new \in F!Id /\ new \in Nat /\ new > used.ids
      BY <2>0, <2>1, <2>2, FileBounds DEF F!Id
    <2>4. used' \in [ids : Nat, edits : Nat, turns : Nat] /\ used'.ids = new
      BY <2>1, <2>2, <2>3, Counted
    <2>5. entry \in Entry /\ entry.digest = c /\ entry.cached /\ entry.path = "clipboard"
      BY <2>0 DEF Entry
    <2>6. staged[new] = F!NoEntry
      BY <2>3 DEF FilesInv, Unregistered
    <2>7. /\ copy' \in [F!Id -> F!Content \cup {"none"}] /\ copy'[new] = c /\ c # "none"
          /\ \A i \in F!Id : i # new => copy'[i] = copy[i]
      BY <2>1, <2>3 DEF FilesInv, FileTypes, F!Content
    <2>8. F!Readable(entry, new)' = entry.digest
      BY <2>5, <2>7 DEF F!Readable
    <2>9. /\ KnownIsStaged' /\ Readings' /\ Waiting' /\ F!CopiesAreKept'
          /\ F!TurnsAreWithinLimits' /\ F!TurnsReadTheirFiles'
          /\ staged' \in [F!Id -> Entry \cup {F!NoEntry}] /\ dedupe' \in [F!Content -> Nat]
      <3>1. /\ new <= used'.ids /\ used.ids <= used'.ids /\ used'.ids \in Nat
            /\ entry.cached <=> entry.path # "inside"
            /\ entry.cached => copy'[new] # "none"
            /\ entry.path = "outside" => picked'
            /\ dedupe' = [dedupe EXCEPT ![entry.digest] = new]
        BY <2>1, <2>2, <2>3, <2>4, <2>5, <2>7
      <3>2. /\ edited \subseteq edited' /\ (picked => picked')
            /\ UNCHANGED <<file, messages, removed, read>>
        BY <1>1
      <3> QED  BY <2>1, <2>3, <2>5, <2>6, <2>7, <2>8, <3>1, <3>2, RegisteringKeeps
    <2>10. FileTypes'
      BY <1>1, <2>1, <2>3, <2>4, <2>7, <2>9 DEF FilesInv, FileTypes
    <2>11. Unregistered' /\ Staging'
      <3>1. \A i \in F!Id : i > used'.ids => staged'[i] = F!NoEntry
        BY <2>1, <2>2, <2>3, <2>4 DEF FilesInv, FileTypes, Unregistered, F!Id
      <3>2. \A t \in F!Thread : work[t].at = "copied" =>
               /\ work[t].new \in F!Id /\ work[t].new <= used.ids /\ work[t].new # new
               /\ work[t].new <= used'.ids
        BY <2>2, <2>3, <2>4 DEF FilesInv, Unregistered, F!Id
      <3>3. Unregistered'
        BY <1>1, <2>1, <2>3, <2>7, <3>1, <3>2 DEF FilesInv, FileTypes, Unregistered, F!Thread
      <3> QED  BY <1>1, <3>3 DEF FilesInv, Staging
    <2> QED  BY <2>9, <2>10, <2>11 DEF FilesInv
  <1> QED  BY <1>2, <1>3

LEMMA Copying ==
    ASSUME NEW d \in Doing, NEW n \in Nat
    PROVE  LET c == [d EXCEPT !.at = "copied", !.new = n]
           IN  /\ c \in Doing /\ c.at = "copied" /\ c.new = n
               /\ c.path = d.path /\ c.digest = d.digest
  BY DEF Doing

\* The look for an equal file, or the copy.
LEMMA LookOrCopyKeeps == ASSUME FilesInv, NEW t \in F!Thread, F!LookOrCopy(t) PROVE FilesInv'
  <1>1. /\ work[t].at = "hashed"
        /\ UNCHANGED <<file, staged, dedupe, messages, edited, removed, picked, read>>
    BY DEF F!LookOrCopy
  <1>2. work[t].path \in F!Path /\ work[t].digest \in F!Content /\ (work[t].path = "outside" => picked)
    BY <1>1 DEF FilesInv, Staging
  <1>3. used \in [ids : Nat, edits : Nat, turns : Nat] /\ used.ids \in Nat /\ chips \subseteq F!Id
    BY DEF FilesInv, FileTypes
  <1>4. CASE dedupe[work[t].digest] # 0 /\ F!Have(t, dedupe[work[t].digest]) /\ UNCHANGED <<copy, used>>
    <2>1. dedupe[work[t].digest] \in F!Id
      BY <1>2, <1>4 DEF FilesInv, KnownIsStaged
    <2> QED  BY <1>1, <1>3, <1>4, <2>1, HaveWorks, ThreadKeeps, Unmoved, NothingSaid
  <1>5. CASE work' = [work EXCEPT ![t] = F!Idle] /\ UNCHANGED <<copy, chips, used>>
    BY <1>1, <1>3, <1>5, WorkStays, IdleDoing, ThreadKeeps, Unmoved, NothingSaid
  <1>6. CASE /\ used.ids < MaxIds /\ ~(work[t].path = "outside" /\ file[work[t].path] = "gone")
             /\ used' = [used EXCEPT !.ids = used.ids + 1]
             /\ work' = [work EXCEPT ![t] = [work[t] EXCEPT !.at = "copied", !.new = used.ids + 1]]
             /\ copy' = IF work[t].path = "outside"
                        THEN [copy EXCEPT ![used.ids + 1] = file[work[t].path]] ELSE copy
             /\ UNCHANGED chips
    <2>0. PICK new : new = used.ids + 1
      OBVIOUS
    <2>1. new \in F!Id /\ new \in Nat /\ new > used.ids /\ new = used.ids + 1
      BY <1>3, <1>6, <2>0, FileBounds DEF F!Id
    <2>2. used' \in [ids : Nat, edits : Nat, turns : Nat] /\ used'.ids = new
      BY <1>3, <1>6, <2>1, Counted
    <2>3. /\ work' \in [F!Thread -> Doing] /\ \A u \in F!Thread \ {t} : work'[u] = work[u]
          /\ work'[t].at = "copied" /\ work'[t].new = new
          /\ work'[t].path = work[t].path /\ work'[t].digest = work[t].digest
      <3>1. work[t] \in Doing
        BY DEF FilesInv, FileTypes
      <3>2. LET d == [work[t] EXCEPT !.at = "copied", !.new = new]
            IN  /\ d \in Doing /\ d.at = "copied" /\ d.new = new
                /\ d.path = work[t].path /\ d.digest = work[t].digest
        BY <2>1, <3>1, Copying
      <3>3. work' = [work EXCEPT ![t] = [work[t] EXCEPT !.at = "copied", !.new = new]]
        BY <1>6, <2>0
      <3> QED  BY <3>2, <3>3, WorkStays
    <2>4. /\ copy' \in [F!Id -> F!Content \cup {"none"}]
          /\ \A i \in F!Id : i # new => copy'[i] = copy[i]
          /\ work[t].path = "outside" => copy'[new] # "none"
      BY <1>2, <1>6, <2>1 DEF FilesInv, FileTypes, F!Content
    <2>5. FileTypes'
      BY <1>1, <1>6, <2>2, <2>3, <2>4 DEF FilesInv, FileTypes
    <2>6. Unregistered'
      <3>1. \A i \in F!Id : i > used'.ids => staged'[i] = F!NoEntry
        BY <1>1, <1>3, <2>1, <2>2 DEF FilesInv, Unregistered, F!Id
      <3>2. \A u \in F!Thread : work[u].at = "copied" =>
               /\ work[u].new \in F!Id /\ work[u].new <= used.ids /\ work[u].new # new
               /\ work[u].new <= used'.ids
        BY <1>3, <2>1, <2>2 DEF FilesInv, Unregistered, F!Id
      <3>3. staged[new] = F!NoEntry /\ new <= used'.ids
        BY <1>3, <2>1, <2>2 DEF FilesInv, Unregistered
      <3>4. ASSUME NEW u \in F!Thread, work'[u].at = "copied"
            PROVE  /\ work'[u].new \in F!Id /\ work'[u].new <= used'.ids
                   /\ staged'[work'[u].new] = F!NoEntry
                   /\ work'[u].path = "outside" => copy'[work'[u].new] # "none"
        <4>1. CASE u = t
          BY <1>1, <2>1, <2>3, <2>4, <3>3, <4>1
        <4>2. CASE u # t
          BY <1>1, <2>3, <2>4, <3>2, <3>4, <4>2 DEF FilesInv, Unregistered
        <4> QED  BY <4>1, <4>2
      <3>5. work'["stdin"].at = "copied" /\ work'["worker"].at = "copied" =>
               work'["stdin"].new # work'["worker"].new
        <4>1. t = "stdin" \/ t = "worker"
          BY DEF F!Thread
        <4>2. "stdin" \in F!Thread /\ "worker" \in F!Thread
          BY DEF F!Thread
        <4> QED  BY <2>3, <3>2, <4>1, <4>2
      <3> QED  BY <3>1, <3>4, <3>5 DEF Unregistered
    <2>7. Staging'
      BY <1>1, <1>2, <2>3 DEF FilesInv, Staging
    <2>8. KnownIsStaged'
      BY <1>1 DEF FilesInv, KnownIsStaged
    <2>9. \A i \in F!Id : staged[i] # F!NoEntry => i # new
      BY <2>1, <1>3 DEF FilesInv, Unregistered, F!Id
    <2>10. Readings' /\ F!CopiesAreKept'
      BY <1>1, <2>4, <2>9 DEF FilesInv, Readings, F!Readable, F!CopiesAreKept, F!NoEntry
    <2>11. \A m \in Sent : Holds(m) => Holds(m)'
      <3>1. \A i \in F!Id : (staged'[i] = staged[i] /\ copy'[i] = copy[i]) \/ i > used.ids
        BY <1>1, <2>1, <2>4
      <3>2. /\ used.ids <= used'.ids /\ used'.ids \in Nat
            /\ removed \subseteq removed' /\ edited \subseteq edited'
        BY <1>1, <1>3, <2>1, <2>2
      <3> QED  BY <1>1, <3>1, <3>2, HoldsStays
    <2>12. Waiting' /\ F!TurnsAreWithinLimits' /\ F!TurnsReadTheirFiles'
      BY <1>1, <2>11, Unmoved, NothingSaid, WithinStays
      DEF FilesInv, FileTypes, Waiting, F!TurnsReadTheirFiles
    <2> QED  BY <2>5, <2>6, <2>7, <2>8, <2>10, <2>12 DEF FilesInv
  <1> QED  BY <1>4, <1>5, <1>6 DEF F!LookOrCopy, F!External

\* The entry is registered.
LEMMA RegisterKeeps == ASSUME FilesInv, NEW t \in F!Thread, F!Register(t) PROVE FilesInv'
  <1>0. PICK new, entry : /\ new = work[t].new
                          /\ entry = [path |-> work[t].path, digest |-> work[t].digest,
                                      cached |-> F!External(work[t].path)]
    OBVIOUS
  <1>1. /\ work[t].at = "copied" /\ F!Have(t, new)
        /\ staged' = [staged EXCEPT ![new] = entry]
        /\ dedupe' = [dedupe EXCEPT ![work[t].digest] = new]
        /\ edited' = IF (IF F!External(work[t].path) THEN copy[new] ELSE file[work[t].path])
                           # work[t].digest
                     THEN edited \cup {new} ELSE edited
        /\ UNCHANGED <<file, copy, messages, used, removed, picked, read>>
    BY <1>0 DEF F!Register
  <1>2. /\ new \in F!Id /\ new <= used.ids /\ staged[new] = F!NoEntry
        /\ work[t].path = "outside" => copy[new] # "none"
    BY <1>0, <1>1 DEF FilesInv, Unregistered
  <1>3. work[t].path \in F!Path /\ work[t].digest \in F!Content /\ (work[t].path = "outside" => picked)
    BY <1>1 DEF FilesInv, Staging
  <1>4. /\ entry.path = work[t].path /\ entry.digest = work[t].digest
        /\ entry.cached <=> entry.path = "outside"
    BY <1>0 DEF F!External
  <1>5. entry \in Entry
    <2>1. F!External(work[t].path) \in BOOLEAN
      BY DEF F!External
    <2>2. work[t].path \in {"inside", "outside", "clipboard"}
      BY <1>3 DEF F!Path
    <2> QED  BY <1>0, <1>3, <2>1, <2>2 DEF Entry
  <1>6. edited \subseteq edited' /\ (new \in edited' \/ F!Readable(entry, new)' = entry.digest)
    <2>1. edited \subseteq edited'
      BY <1>1
    <2>2. CASE entry.path = "outside"
      BY <1>1, <1>4, <2>2 DEF F!Readable, F!External
    <2>3. CASE entry.path # "outside"
      BY <1>1, <1>4, <2>3 DEF F!Readable, F!External
    <2> QED  BY <2>1, <2>2, <2>3
  <1>7. /\ used.ids \in Nat /\ used' = used
        /\ new <= used'.ids /\ used.ids <= used'.ids /\ used'.ids \in Nat
        /\ used' \in [ids : Nat, edits : Nat, turns : Nat]
    BY <1>1, <1>2 DEF FilesInv, FileTypes
  <1>8. /\ KnownIsStaged' /\ Readings' /\ Waiting' /\ F!CopiesAreKept'
        /\ F!TurnsAreWithinLimits' /\ F!TurnsReadTheirFiles'
        /\ staged' \in [F!Id -> Entry \cup {F!NoEntry}] /\ dedupe' \in [F!Content -> Nat]
    <2>1. /\ entry.cached <=> entry.path # "inside"
          /\ entry.cached => copy'[new] # "none"
          /\ entry.path = "outside" => picked'
          /\ dedupe' = [dedupe EXCEPT ![entry.digest] = new]
      BY <1>1, <1>2, <1>3, <1>4 DEF F!Path
    <2>2. /\ copy' = copy /\ copy' \in [F!Id -> F!Content \cup {"none"}]
          /\ picked => picked'
          /\ UNCHANGED <<file, messages, removed, read>>
      BY <1>1 DEF FilesInv, FileTypes
    <2> QED  BY <1>1, <1>2, <1>5, <1>6, <1>7, <2>1, <2>2, RegisteringKeeps
  <1>9. /\ work' \in [F!Thread -> Doing] /\ \A u \in F!Thread \ {t} : work'[u] = work[u]
        /\ work'[t].at \in {"idle", "collecting"} /\ chips' \subseteq F!Id
    BY <1>1, <1>2, HaveWorks
  <1>10. FileTypes'
    BY <1>1, <1>7, <1>8, <1>9 DEF FilesInv, FileTypes
  <1>11. Unregistered'
    <2>1. \A i \in F!Id : i > used'.ids => staged'[i] = F!NoEntry
      BY <1>1, <1>2, <1>7 DEF FilesInv, FileTypes, Unregistered, F!Id
    <2>2. ASSUME NEW u \in F!Thread, work'[u].at = "copied"
          PROVE  u # t /\ work'[u] = work[u] /\ work[u].new # new
      BY <1>0, <1>1, <1>9, <2>2 DEF FilesInv, Unregistered, F!Thread
    <2> QED  BY <1>1, <1>7, <2>1, <2>2 DEF FilesInv, FileTypes, Unregistered, F!Thread
  <1>12. Staging'
    BY <1>1, <1>9 DEF FilesInv, Staging
  <1> QED  BY <1>8, <1>10, <1>11, <1>12 DEF FilesInv

\* The limits of a turn, from the sizes of what is attached to it.
LEMMA AcceptedIsWithin ==
    ASSUME FilesInv, NEW ids \in SUBSET F!Id, F!Accepts(ids),
           NEW m, m = F!Message("turn", ids, "none", {<<i, staged[i]>> : i \in ids})
    PROVE  m \in Sent /\ Within(m) /\ Holds(m)
  <1> DEFINE A == {i \in ids : staged[i].digest = "a"}
             B == {i \in ids : staged[i].digest = "b"}
  <1>1. m.kind = "turn" /\ m.ids = ids /\ m.path = "none" /\ m.entries = {<<i, staged[i]>> : i \in ids}
    BY DEF F!Message
  <1>2. \A i \in ids : staged[i] \in Entry /\ staged[i] # F!NoEntry
    BY DEF F!Accepts, FilesInv, FileTypes
  <1>3. m \in Sent
    BY <1>1, <1>2 DEF F!Message, Sent
  <1>4. Holds(m)
    <2> SUFFICES ASSUME NEW i \in ids
                 PROVE  /\ i <= used.ids
                        /\ staged[i].cached <=> staged[i].path # "inside"
                        /\ i \in edited \cup removed \/ F!Readable(staged[i], i) = staged[i].digest
      BY <1>1 DEF Holds
    <2>1. staged[i] # F!NoEntry /\ i \in F!Id
      BY <1>2
    <2>2. i <= used.ids
      BY <2>1 DEF FilesInv, FileTypes, Unregistered, F!Id
    <2> QED  BY <2>1, <2>2 DEF FilesInv, Readings
  <1>5. IsFiniteSet(ids) /\ IsFiniteSet(A) /\ IsFiniteSet(B)
    <2>1. \A n \in Nat : IsFiniteSet(1 .. n)
      BY FS_Interval
    <2>2. F!Id = 1 .. MaxIds
      BY DEF F!Id
    <2>3. ids \subseteq 1 .. MaxIds /\ A \subseteq 1 .. MaxIds /\ B \subseteq 1 .. MaxIds
      BY <2>2
    <2> QED  BY <2>1, <2>3, FileBounds, FS_Subset
  <1>6. F!Cardinality(ids) <= F!MaxAttachments /\ F!Total(ids) <= F!MaxTurnBytes
    BY DEF F!Accepts
  <1>7. Cardinality(A) + 2 * Cardinality(B) <= 2
    <2>1. F!Cardinality(A) = Cardinality(A) /\ F!Cardinality(B) = Cardinality(B)
      BY SameCardinality
    <2>2. F!Total(ids) = F!Cardinality(A) * F!Bytes("a") + F!Cardinality(B) * F!Bytes("b")
      BY DEF F!Total
    <2>3. F!Bytes("a") = 1 /\ F!Bytes("b") = 2 /\ F!MaxTurnBytes = 2
      BY DEF F!Bytes, F!MaxTurnBytes
    <2>4. Cardinality(A) \in Nat /\ Cardinality(B) \in Nat
      BY <1>5, FS_CardinalityType
    <2> HIDE DEF A, B
    <2> QED  BY <1>6, <2>1, <2>2, <2>3, <2>4
  <1>8. ASSUME NEW j \in B PROVE F!Cardinality(ids) = 1
    <2>1. Cardinality(A) \in Nat /\ Cardinality(B) \in Nat /\ Cardinality(B) # 0
      BY <1>5, <1>8, FS_CardinalityType, FS_EmptySet
    <2>2. Cardinality(A) = 0 /\ Cardinality(B) = 1
      BY <1>7, <2>1
    <2>3. A = {}
      BY <1>5, <2>2, FS_EmptySet
    <2>4. ids = B
      BY <1>2, <2>3 DEF Entry, F!Content
    <2> QED  BY <2>2, <2>4, SameCardinality
  <1>9. F!Cardinality({e \in m.entries : e[2].digest = "b"}) > 0 => F!Cardinality(ids) = 1
    <2>1. CASE B = {}
      <3>1. {e \in m.entries : e[2].digest = "b"} = {}
        BY <1>1, <2>1
      <3>2. F!Cardinality({}) = 0
        BY SameCardinality, FS_EmptySet
      <3>3. F!Cardinality({e \in m.entries : e[2].digest = "b"}) = 0
        BY <3>1, <3>2, Zenon
      <3> QED  BY <3>3
    <2>2. CASE B # {}
      BY <1>8, <2>2
    <2> QED  BY <2>1, <2>2
  <1>10. F!NoEntry \notin {e[2] : e \in m.entries}
    BY <1>1, <1>2
  <1> QED  BY <1>1, <1>3, <1>4, <1>6, <1>9, <1>10 DEF Within

\* A submission is accepted or refused.
LEMMA CollectKeeps == ASSUME FilesInv, NEW t \in F!Thread, F!Collect(t) PROVE FilesInv'
  <1>1. /\ work' = [work EXCEPT ![t] = F!Idle]
        /\ UNCHANGED <<file, staged, dedupe, copy, used, edited, removed, picked, read>>
    BY DEF F!Collect
  <1>2. /\ work' \in [F!Thread -> Doing] /\ \A u \in F!Thread \ {t} : work'[u] = work[u]
        /\ work'[t].at = "idle"
    BY <1>1, WorkStays, IdleDoing
  <1>3. used' \in [ids : Nat, edits : Nat, turns : Nat] /\ work[t].ids \in SUBSET F!Id
    BY <1>1 DEF FilesInv, FileTypes, Doing
  <1>4. chips' \subseteq F!Id
    BY DEF F!Collect, FilesInv, FileTypes
  <1>5. CASE F!Accepts(work[t].ids)
    <2>1. PICK m : m = F!Message("turn", work[t].ids, "none", {<<i, staged[i]>> : i \in work[t].ids})
      OBVIOUS
    <2>2. messages' = Append(messages, m)
      BY <1>5, <2>1 DEF F!Collect
    <2>3. m \in Sent /\ Within(m) /\ Holds(m)
      BY <1>3, <1>5, <2>1, AcceptedIsWithin
    <2> QED  BY <1>1, <1>2, <1>3, <1>4, <2>2, <2>3, Appended, ThreadKeeps
  <1>6. CASE ~F!Accepts(work[t].ids)
    <2>1. UNCHANGED messages
      BY <1>6 DEF F!Collect
    <2> QED  BY <1>1, <1>2, <1>3, <1>4, <2>1, Unmoved, NothingSaid, ThreadKeeps
  <1> QED  BY <1>5, <1>6

LEMMA FilesInductive == FilesInv /\ [F!Next]_(F!vars) => FilesInv'
  <1>1. ASSUME FilesInv, UNCHANGED F!vars PROVE FilesInv'
    <2>1. UNCHANGED <<file, staged, dedupe, copy, chips, work, messages, used, edited, removed,
                      picked, read>>
      BY <1>1 DEF F!vars
    <2>2. FileTypes' /\ Unregistered' /\ Staging'
      BY <1>1, <2>1 DEF FilesInv, FileTypes, Unregistered, Staging
    <2>3. KnownIsStaged' /\ Readings' /\ F!CopiesAreKept' /\ \A m : Holds(m) => Holds(m)'
      BY <1>1, <2>1, EntriesStay
    <2>4. Waiting' /\ F!TurnsAreWithinLimits' /\ F!TurnsReadTheirFiles'
      BY <1>1, <2>1, <2>3, Unmoved, NothingSaid, WaitingStays, WithinStays
      DEF FilesInv, F!TurnsReadTheirFiles
    <2> QED  BY <2>2, <2>3, <2>4 DEF FilesInv
  <1> QED
    BY <1>1, EditKeeps, LookOrCopyKeeps, RegisterKeeps, CollectKeeps, StagePathKeeps, StageBytesKeeps,
       RemoveKeeps, SubmitKeeps, AskKeeps, RunKeeps, ReopenKeeps
    DEF F!Next

LEMMA FilesGive ==
    FilesInv => F!KnownAreKept /\ F!CopiesAreKept /\ F!TurnsAreWithinLimits /\ F!TurnsReadTheirFiles
  BY DEF FilesInv, F!KnownAreKept, KnownIsStaged

-----------------------------------------------------------------------------
\* What the run checks of both, in its own specification: beside SessionsAreGuarded, what is known by
\* its digest is there, copies are kept, nothing outside is copied without the user, and a turn is
\* within its limits and reads what was attached to it (AttachmentManager).
THEOREM SessionsAreServed == MCSpec => []SessionIsServed
  <1>1. MCInit => QueueInv /\ FilesInv
    BY QueueInitially, FilesInitially DEF MCInit
  <1>2. QueueInv /\ FilesInv /\ [MCNext]_parts => QueueInv' /\ FilesInv'
    <2>1. [MCNext]_parts => [Next]_vars /\ [F!Next]_(F!vars)
      BY DEF MCNext, parts, attaching, F!vars
    <2> QED  BY <2>1, QueueInductive, FilesInductive
  <1>3. QueueInv /\ FilesInv => SessionIsServed
    BY QueueGives, FilesGive DEF SessionIsServed, SessionGuarded
  <1> QED  BY <1>1, <1>2, <1>3, PTL DEF MCSpec, parts

=============================================================================
