-------------------------- MODULE ProjectResources --------------------------
(***************************************************************************)
(* The execution budget all sessions of a project share in one process     *)
(* (runtime/project_resources.py): model requests and tool runs wait for a  *)
(* slot; the budget closes with its last owner and the next session gets a  *)
(* new one.  Looking a budget up and holding it are two steps.              *)
(***************************************************************************)
EXTENDS Naturals, FiniteSets

CONSTANTS Session,      \* owners of the budget
          Call,         \* waits for a slot, each used once
          CallOf,       \* the session of each call
          Limit,        \* slots of the one kind that is modelled
          MaxBudgets    \* budgets made

VARIABLES current,   \* the budget of _projects; 0 when there is none
          made,      \* budgets made so far
          owners,    \* _owners of each budget
          shut,      \* budgets with _closed set
          state,     \* none, looked, holding, refused, left: a session
          budget,    \* budget of each session
          call,      \* idle, waiting, active, over: a call
          used,      \* budget of each call
          stopped    \* calls whose token is cancelled

vars == <<current, made, owners, shut, state, budget, call, used, stopped>>

Budget == 1 .. MaxBudgets

Init ==
    /\ current = 0 /\ made = 0 /\ owners = [b \in Budget |-> 0] /\ shut = {}
    /\ state = [s \in Session |-> "none"] /\ budget = [s \in Session |-> 0]
    /\ call = [c \in Call |-> "idle"] /\ used = [c \in Call |-> 0] /\ stopped = {}

\* The end of one ownership; the last one closes the budget.
Released(b) == owners' = [owners EXCEPT ![b] = @ - 1] /\ shut' = IF owners'[b] = 0 THEN shut \union {b} ELSE shut

\* for_project: the budget of the project, or a new one when that is closed.
Look(s) ==
    /\ state[s] = "none"
    /\ IF current = 0 \/ current \in shut
         THEN made < MaxBudgets /\ made' = made + 1 /\ current' = made'
         ELSE UNCHANGED <<made, current>>
    /\ state' = [state EXCEPT ![s] = "looked"] /\ budget' = [budget EXCEPT ![s] = current']
    /\ UNCHANGED <<owners, shut, call, used, stopped>>

\* hold: refused when the last owner left in between.
Hold(s) ==
    /\ state[s] = "looked"
    /\ IF budget[s] \in shut
         THEN state' = [state EXCEPT ![s] = "refused"] /\ UNCHANGED owners
         ELSE /\ state' = [state EXCEPT ![s] = "holding"]
              /\ owners' = [owners EXCEPT ![budget[s]] = @ + 1]
    /\ UNCHANGED <<current, made, shut, budget, call, used, stopped>>

\* The session ends, or starts again with the budget of that time.
Leave(s) ==
    /\ state[s] = "holding"
    /\ state' = [state EXCEPT ![s] = "left"]
    /\ Released(budget[s])
    /\ UNCHANGED <<current, made, budget, call, used, stopped>>

Return(s) ==
    /\ state[s] \in {"left", "refused"} /\ made < MaxBudgets
    /\ state' = [state EXCEPT ![s] = "none"]
    /\ UNCHANGED <<current, made, owners, shut, budget, call, used, stopped>>

\* acquire and submit: the call owns the budget itself, from before it waits.
Ask(c) ==
    /\ call[c] = "idle" /\ state[CallOf[c]] = "holding"
    /\ call' = [call EXCEPT ![c] = "waiting"] /\ used' = [used EXCEPT ![c] = budget[CallOf[c]]]
    /\ owners' = [owners EXCEPT ![budget[CallOf[c]]] = @ + 1]
    /\ UNCHANGED <<current, made, shut, state, budget, stopped>>

Active(b) == {c \in Call : call[c] = "active" /\ used[c] = b}

\* A slot is free and the call was not stopped: rows and pool threads alike.
HasSlot(b) == Cardinality(Active(b)) < Limit

Grant(c) ==
    /\ call[c] = "waiting" /\ HasSlot(used[c]) /\ c \notin stopped
    /\ call' = [call EXCEPT ![c] = "active"]
    /\ UNCHANGED <<current, made, owners, shut, state, budget, used, stopped>>

\* The token is looked at on every turn of the wait; a queued future is cancelled.
GiveUpAtSlot(c) ==
    /\ call[c] = "waiting" /\ c \in stopped /\ HasSlot(used[c])
    /\ call' = [call EXCEPT ![c] = "over"]
    /\ Released(used[c])
    /\ UNCHANGED <<current, made, state, budget, used, stopped>>

GiveUp(c) ==
    /\ call[c] = "waiting" /\ c \in stopped
    /\ call' = [call EXCEPT ![c] = "over"]
    /\ Released(used[c])
    /\ UNCHANGED <<current, made, state, budget, used, stopped>>

Done(c) ==
    /\ call[c] = "active"
    /\ call' = [call EXCEPT ![c] = "over"]
    /\ Released(used[c])
    /\ UNCHANGED <<current, made, state, budget, used, stopped>>

StopCall(c) ==
    /\ call[c] \in {"waiting", "active"} /\ c \notin stopped
    /\ stopped' = stopped \union {c}
    /\ UNCHANGED <<current, made, owners, shut, state, budget, call, used>>

Next ==
    \/ \E s \in Session : Look(s) \/ Hold(s) \/ Leave(s) \/ Return(s)
    \/ \E c \in Call : Ask(c) \/ Grant(c) \/ GiveUp(c) \/ Done(c) \/ StopCall(c)

\* A waiting call looks again after a while; nothing makes an active one end.
Fairness == \A c \in Call : WF_vars(Grant(c)) /\ WF_vars(GiveUp(c))

Spec == Init /\ [][Next]_vars /\ Fairness

(***************************************************************************)
(* What must hold.                                                          *)
(***************************************************************************)
Owning(b) ==
    Cardinality({s \in Session : state[s] = "holding" /\ budget[s] = b})
    + Cardinality({c \in Call : call[c] \in {"waiting", "active"} /\ used[c] = b})

TypeOK ==
    /\ made \in 0 .. MaxBudgets /\ current \in 0 .. made
    /\ owners \in [Budget -> Nat] /\ shut \subseteq 1 .. made
    /\ state \in [Session -> {"none", "looked", "holding", "refused", "left"}]
    /\ call \in [Call -> {"idle", "waiting", "active", "over"}]
    /\ budget \in [Session -> 0 .. made] /\ used \in [Call -> 0 .. made] /\ stopped \subseteq Call
    /\ \A b \in Budget : owners[b] = Owning(b)

\* However sessions come and go, the project as a whole never runs more than its limit: a new
\* budget is made only when nothing runs under an older one (for_project, release).
ProjectWithinLimit == Cardinality({c \in Call : call[c] = "active"}) <= Limit

\* The pools are not shut down under a call that waits or runs in them, nor under a session.
OpenWhileOwned == \A b \in shut : Owning(b) = 0

\* A call that waits for a slot and is stopped leaves, though nothing it waits for ever ends
\* ("任务等待额度时可正常取消").
StopEndsWait == \A c \in Call : call[c] = "waiting" /\ c \in stopped ~> call[c] = "over"

=============================================================================
