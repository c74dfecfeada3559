------------------------- MODULE BridgeInteractions -------------------------
(***************************************************************************)
(* Approvals and questions of the terminal bridge (tui_bridge.py,          *)
(* BridgeInteractionProvider): threads of a running session ask, one at a  *)
(* time, and block; the loop over stdin hands in the answers of the user;  *)
(* the shutdown answers what is open.  What the frontend shows is the      *)
(* "interaction" of the view that the registry of sessions keeps.          *)
(*                                                                         *)
(* An interaction is known by its number.  0 stands for none.              *)
(***************************************************************************)
EXTENDS Naturals, FiniteSets

CONSTANTS Asker,        \* threads that ask
          MaxAsked      \* number of interactions that are opened

Answer == {"approve", "persist", "deny"}
Id == 1 .. MaxAsked

VARIABLES
    stage,      \* where each asker is
    asks,       \* the interaction it has opened
    holder,     \* owner of _presentation_lock, or 0
    counter,    \* _counter
    pending,    \* _pending
    result,     \* the result dictionary of each interaction: its decision
    woken,      \* the interactions whose event is set
    stopped,    \* the askers whose token is cancelled
    closed,     \* _closed
    snapshot,   \* what cancel_all() has still to answer
    view,       \* the interaction the view shows
    late,       \* the interaction that resolve has answered and not yet announced
    allowed,    \* whether the project's allowlist matches
    given,      \* history: the answers the user gave to each interaction
    granted     \* history: the approvals returned, by interaction, 0 for the allowlist

vars == <<stage, asks, holder, counter, pending, result, woken, stopped, closed, snapshot, view,
          late, allowed, given, granted>>

Init ==
    /\ stage = [a \in Asker |-> "idle"] /\ asks = [a \in Asker |-> 0]
    /\ holder = 0 /\ counter = 0 /\ pending = {}
    /\ result = [i \in Id |-> "none"] /\ woken = {}
    /\ stopped = {} /\ closed = FALSE /\ snapshot = {}
    /\ view = 0 /\ late = 0 /\ allowed = FALSE
    /\ given = [i \in Id |-> {}] /\ granted = {}

Step(a, next) == stage' = [stage EXCEPT ![a] = next]

\* request(): a command the allowlist matches is approved without the user.
Request(a) ==
    /\ stage[a] = "idle" /\ a \notin stopped
    /\ counter + Cardinality({b \in Asker : stage[b] \in {"lock", "check", "open"}}) < MaxAsked
    /\ \/ ~allowed /\ Step(a, "lock") /\ UNCHANGED granted
       \/ allowed /\ granted' = granted \cup {0} /\ UNCHANGED stage
    /\ UNCHANGED <<asks, holder, counter, pending, result, woken, stopped, closed, snapshot, view,
                   late, allowed, given>>

\* The wait for _presentation_lock looks at the token and at _closed; so does
\* the asker once it has the lock.
Refused(a) == a \in stopped \/ closed

Present(a) ==
    /\ stage[a] = "lock" /\ holder = 0
    /\ holder' = a /\ Step(a, "check")
    /\ UNCHANGED <<asks, counter, pending, result, woken, stopped, closed, snapshot, view, late,
                   allowed, given, granted>>

GiveUp(a) ==
    /\ Refused(a)
    /\ \/ stage[a] = "lock" /\ UNCHANGED holder
       \/ stage[a] = "check" /\ holder' = 0
    /\ Step(a, "idle")
    /\ UNCHANGED <<asks, counter, pending, result, woken, stopped, closed, snapshot, view, late,
                   allowed, given, granted>>

Check(a) ==
    /\ stage[a] = "check" /\ ~Refused(a) /\ Step(a, "open")
    /\ UNCHANGED <<asks, holder, counter, pending, result, woken, stopped, closed, snapshot, view,
                   late, allowed, given, granted>>

Open(a) ==
    /\ stage[a] = "open"
    /\ counter' = counter + 1 /\ pending' = pending \cup {counter'}
    /\ asks' = [asks EXCEPT ![a] = counter'] /\ Step(a, "announce")
    /\ UNCHANGED <<holder, result, woken, stopped, closed, snapshot, view, late, allowed, given,
                   granted>>

\* The bridge sends no events once it closes.
Announce(a) ==
    /\ stage[a] = "announce"
    /\ view' = IF closed THEN view ELSE asks[a]
    /\ Step(a, "wait")
    /\ UNCHANGED <<asks, holder, counter, pending, result, woken, stopped, closed, snapshot, late,
                   allowed, given, granted>>

\* SessionRuntimeRegistry.publish() of "interaction_closed".
Cleared(i) == IF view = i /\ ~closed THEN 0 ELSE view

\* The asker wakes up by the answer or by its token, and takes the interaction
\* off the table.
Wake(a) ==
    /\ stage[a] = "wait" /\ (asks[a] \in woken \/ a \in stopped)
    /\ pending' = pending \ {asks[a]}
    /\ Step(a, IF a \in stopped THEN "withdraw" ELSE "return")
    /\ UNCHANGED <<asks, holder, counter, result, woken, stopped, closed, snapshot, view, late,
                   allowed, given, granted>>

Approves(i) == result[i] \in {"approve", "persist"}

Return(a) ==
    /\ stage[a] \in {"withdraw", "return"}
    /\ view' = Cleared(asks[a]) /\ holder' = 0
    /\ IF stage[a] = "return" /\ Approves(asks[a])
         THEN /\ granted' = granted \cup {asks[a]}
              /\ allowed' = (allowed \/ result[asks[a]] = "persist")
         ELSE UNCHANGED <<granted, allowed>>
    /\ asks' = [asks EXCEPT ![a] = 0] /\ Step(a, "idle")
    /\ UNCHANGED <<counter, pending, result, woken, stopped, closed, snapshot, late, given>>

\* Mutant: an answer goes to whatever is open.
ResolveOpen ==
    /\ late = 0 /\ ~closed
    /\ \E i \in 1 .. counter, r \in Answer, j \in pending :
          /\ result' = [result EXCEPT ![j] = r]
          /\ woken' = woken \cup {j} /\ late' = i
          /\ given' = [given EXCEPT ![i] = @ \cup {r}]
    /\ UNCHANGED <<stage, asks, holder, counter, pending, stopped, closed, snapshot, view, allowed,
                   granted>>

\* resolve(): for any interaction the user has been shown, also one that is
\* over or already answered; the loop over stdin announces it afterwards.
Resolve ==
    /\ late = 0 /\ ~closed
    /\ \E i \in 1 .. counter, r \in Answer :
          /\ late' = i
          /\ IF i \in pending
               THEN /\ result' = [result EXCEPT ![i] = r]
                    /\ woken' = woken \cup {i}
                    /\ given' = [given EXCEPT ![i] = @ \cup {r}]
               ELSE UNCHANGED <<result, woken, given>>
    /\ UNCHANGED <<stage, asks, holder, counter, pending, stopped, closed, snapshot, view, allowed,
                   granted>>

AnnounceResolved ==
    /\ late # 0
    /\ view' = Cleared(late) /\ late' = 0
    /\ UNCHANGED <<stage, asks, holder, counter, pending, result, woken, stopped, closed, snapshot,
                   allowed, given, granted>>

\* The user stops the turn of an asker.
Stop(a) ==
    /\ a \notin stopped /\ stopped' = stopped \cup {a}
    /\ UNCHANGED <<stage, asks, holder, counter, pending, result, woken, closed, snapshot, view,
                   late, allowed, given, granted>>

\* cancel_all(): under the lock takes what is pending, then answers it.  The
\* tokens of all askers are cancelled when the session closes.
CancelAll ==
    /\ ~closed /\ late = 0
    /\ closed' = TRUE /\ snapshot' = pending
    /\ UNCHANGED <<stage, asks, holder, counter, pending, result, woken, stopped, view, late,
                   allowed, given, granted>>

CancelOne ==
    /\ \E i \in snapshot :
          /\ result' = [result EXCEPT ![i] = IF @ = "none" THEN "deny" ELSE @]
          /\ woken' = woken \cup {i} /\ snapshot' = snapshot \ {i}
    /\ UNCHANGED <<stage, asks, holder, counter, pending, stopped, closed, view, late, allowed,
                   given, granted>>

Proceed(a) == Present(a) \/ GiveUp(a) \/ Check(a) \/ Open(a) \/ Announce(a) \/ Wake(a) \/ Return(a)

Next ==
    \/ \E a \in Asker : Request(a) \/ Proceed(a) \/ Stop(a)
    \/ Resolve \/ AnnounceResolved
    \/ CancelAll \/ CancelOne

Spec == Init /\ [][Next]_vars

\* Threads go on; the shutdown cancels every token once it has begun.
Fairness ==
    /\ \A a \in Asker : SF_vars(Proceed(a)) /\ WF_vars(closed /\ Stop(a))
    /\ WF_vars(AnnounceResolved) /\ WF_vars(CancelOne)

FairSpec == Spec /\ Fairness

----------------------------------------------------------------------------
TypeOK ==
    /\ stage \in [Asker -> {"idle", "lock", "check", "open", "announce", "wait", "withdraw", "return"}]
    /\ asks \in [Asker -> 0 .. MaxAsked] /\ holder \in Asker \cup {0}
    /\ counter \in 0 .. MaxAsked /\ pending \subseteq Id
    /\ result \in [Id -> Answer \cup {"none"}] /\ woken \subseteq Id
    /\ stopped \subseteq Asker /\ closed \in BOOLEAN /\ snapshot \subseteq Id
    /\ view \in 0 .. MaxAsked /\ late \in 0 .. MaxAsked /\ allowed \in BOOLEAN
    /\ given \in [Id -> SUBSET Answer] /\ granted \subseteq 0 .. MaxAsked

\* An approval comes from the user: from an answer to that very interaction, or
\* from a rule the user asked to keep.
ApprovedByUser ==
    \A i \in granted :
        IF i = 0 THEN \E j \in Id : "persist" \in given[j]
                 ELSE given[i] \cap {"approve", "persist"} # {}

\* What waits for the user is on display until it is answered, although the end
\* of an earlier interaction is announced twice, by its asker and by the loop
\* over stdin, in any order with the beginning of the next.
WaitingIsShown ==
    \A a \in Asker :
        stage[a] = "wait" /\ asks[a] \notin woken /\ ~closed => view = asks[a]

\* Nothing is on display that nobody waits for.
NoGhost ==
    (\A a \in Asker : stage[a] = "idle") /\ ~closed => view = 0

\* Every asker comes back once the bridge shuts down, also one that opened its
\* interaction after cancel_all() had taken the list of those to answer.
AskersReturn == closed ~> \A a \in Asker : stage[a] = "idle"

=============================================================================
