-------------------------- MODULE CancellationTree --------------------------
(***************************************************************************)
(* The tree of cancellation tokens (agent/cancellation.py) and the         *)
(* supervisor of the tool futures that carry them                          *)
(* (runtime/task_supervisor.py).  A token is set and its callbacks are      *)
(* taken in one step under its lock; they run one by one after it.  A child *)
(* registers with its parent under the parent's lock and, when that is      *)
(* already set, cancels itself afterwards.                                  *)
(***************************************************************************)
EXTENDS Naturals, FiniteSets

CONSTANTS Token, Root, ParentOf     \* ParentOf[t] for every token but Root

VARIABLES made,       \* where each token's construction is: none, late, whole, closed
          set,        \* tokens whose event is set
          callbacks,  \* children registered with each token
          running,    \* callbacks a cancel() of each token still has to run
          future,     \* the future that carries each token: none, queued, running, done
          tracked,    \* futures of the supervisor
          shut,       \* _closed of the supervisor
          toCancel,   \* futures close() still has to cancel
          draining    \* whether close() is at it

vars == <<made, set, callbacks, running, future, tracked, shut, toCancel, draining>>

Child == Token \ {Root}

Init ==
    /\ made = [t \in Token |-> IF t = Root THEN "whole" ELSE "none"]
    /\ set = {} /\ callbacks = [t \in Token |-> {}] /\ running = [t \in Token |-> {}]
    /\ future = [t \in Token |-> "none"] /\ tracked = {} /\ shut = FALSE
    /\ toCancel = {} /\ draining = FALSE

futures == <<future, tracked, shut, toCancel, draining>>

\* add_callback: the callback is kept, or run at once by the thread that adds it.
CreateChildUnlocked(t) ==
    /\ made[t] = "none" /\ made[ParentOf[t]] = "whole"
    /\ callbacks' = [callbacks EXCEPT ![ParentOf[t]] = @ \union {t}]
    /\ made' = [made EXCEPT ![t] = "whole"]
    /\ UNCHANGED <<set, running, futures>>

CreateChild(t) ==
    /\ made[t] = "none" /\ made[ParentOf[t]] = "whole"
    /\ IF ParentOf[t] \in set
         THEN made' = [made EXCEPT ![t] = "late"] /\ UNCHANGED callbacks
         ELSE /\ made' = [made EXCEPT ![t] = "whole"]
              /\ callbacks' = [callbacks EXCEPT ![ParentOf[t]] = @ \union {t}]
    /\ UNCHANGED <<set, running, futures>>

\* cancel(): nothing when it is set; otherwise set, and the callbacks are taken over.
SetToken(t) ==
    IF t \in set THEN UNCHANGED <<set, callbacks, running>>
    ELSE /\ set' = set \union {t}
         /\ running' = [running EXCEPT ![t] = callbacks[t]]
         /\ callbacks' = [callbacks EXCEPT ![t] = {}]

BornCancelled(t) ==
    /\ made[t] = "late"
    /\ made' = [made EXCEPT ![t] = "whole"]
    /\ SetToken(t)
    /\ UNCHANGED futures

Cancel(t) ==
    /\ made[t] = "whole" /\ t \notin set
    /\ SetToken(t)
    /\ UNCHANGED <<made, futures>>

\* The next callback of a cancellation: the child's own cancel().
RunCallback(t, child) ==
    /\ child \in running[t]
    /\ IF child \in set
         THEN running' = [running EXCEPT ![t] = @ \ {child}] /\ UNCHANGED <<set, callbacks>>
         ELSE /\ set' = set \union {child}
              /\ running' = [running EXCEPT ![t] = @ \ {child}, ![child] = callbacks[child]]
              /\ callbacks' = [callbacks EXCEPT ![child] = {}]
    /\ UNCHANGED <<made, futures>>

\* close(): the token leaves its parent; a cancellation that has taken it over still reaches it.
Close(t) ==
    /\ t # Root /\ made[t] = "whole" /\ future[t] \in {"none", "done"}
    /\ made' = [made EXCEPT ![t] = "closed"]
    /\ callbacks' = [callbacks EXCEPT ![ParentOf[t]] = @ \ {t}]
    /\ UNCHANGED <<set, running, futures>>

(***************************************************************************)
(* The futures of tool calls.                                               *)
(***************************************************************************)
\* submit, then track: a closed supervisor cancels the future and refuses it.
Submit(t) ==
    /\ t # Root /\ made[t] = "whole" /\ future[t] = "none"
    /\ future' = [future EXCEPT ![t] = "queued"]
    /\ UNCHANGED <<made, set, callbacks, running, tracked, shut, toCancel, draining>>

Track(t) ==
    /\ future[t] \in {"queued", "running"} /\ t \notin tracked
    /\ IF shut THEN /\ future' = [future EXCEPT ![t] = IF @ = "queued" THEN "done" ELSE @]
                    /\ UNCHANGED tracked
               ELSE tracked' = tracked \union {t} /\ UNCHANGED future
    /\ UNCHANGED <<made, set, callbacks, running, shut, toCancel, draining>>

Run(t) ==
    /\ future[t] = "queued"
    /\ future' = [future EXCEPT ![t] = "running"]
    /\ UNCHANGED <<made, set, callbacks, running, tracked, shut, toCancel, draining>>

Finish(t) ==
    /\ future[t] = "running"
    /\ future' = [future EXCEPT ![t] = "done"] /\ tracked' = tracked \ {t}
    /\ UNCHANGED <<made, set, callbacks, running, shut, toCancel, draining>>

\* close(): no more futures from here on; each one there is has its token and itself cancelled.
CloseSupervisor ==
    /\ ~shut
    /\ shut' = TRUE /\ toCancel' = tracked /\ draining' = TRUE
    /\ UNCHANGED <<made, set, callbacks, running, future, tracked>>

CancelFuture(t) ==
    /\ t \in toCancel
    /\ toCancel' = toCancel \ {t}
    /\ SetToken(t)
    /\ IF future[t] = "queued"
         THEN future' = [future EXCEPT ![t] = "done"] /\ tracked' = tracked \ {t}
         ELSE UNCHANGED <<future, tracked>>
    /\ UNCHANGED <<made, shut, draining>>

Drained ==
    /\ draining /\ toCancel = {}
    /\ draining' = FALSE
    /\ UNCHANGED <<made, set, callbacks, running, future, tracked, shut, toCancel>>

Next ==
    \/ \E t \in Token : \/ CreateChild(t) \/ BornCancelled(t) \/ Cancel(t) \/ Close(t)
                        \/ Submit(t) \/ Track(t) \/ Run(t) \/ Finish(t) \/ CancelFuture(t)
    \/ \E t, child \in Token : RunCallback(t, child)
    \/ CloseSupervisor \/ Drained

\* Threads that are in the middle of a cancellation go on.
Fairness ==
    /\ \A t \in Token : WF_vars(BornCancelled(t))
    /\ \A t, child \in Token : WF_vars(RunCallback(t, child))

Spec == Init /\ [][Next]_vars /\ Fairness

(***************************************************************************)
(* What must hold.                                                          *)
(***************************************************************************)
TypeOK ==
    /\ made \in [Token -> {"none", "late", "whole", "closed"}] /\ set \subseteq Token
    /\ callbacks \in [Token -> SUBSET Child] /\ running \in [Token -> SUBSET Child]
    /\ future \in [Token -> {"none", "queued", "running", "done"}]
    /\ tracked \subseteq Child /\ toCancel \subseteq Child
    /\ \A t \in Child : t \in tracked => future[t] \in {"queued", "running"}

\* A child made while its parent is being cancelled is cancelled as well: it is on the parent's
\* list before the parent is set, or it notices ("the child is born cancelled").
NoChildEscapes ==
    \A t \in Child : made[t] = "whole" /\ ParentOf[t] \in set
                     => t \in set \/ t \in running[ParentOf[t]]

\* "long-lived parents do not accumulate callbacks": what is closed is on no list any more.
ClosedAreForgotten == \A t \in Child : made[t] = "closed" => t \notin callbacks[ParentOf[t]]

\* Once close() has gone through the futures, whatever the supervisor still tracks was told to stop.
NoToolEscapes == shut /\ ~draining => tracked \subseteq set

\* A cancellation reaches every level below.
CancellationReaches ==
    \A t \in Child : made[t] = "whole" /\ ParentOf[t] \in set ~> t \in set

=============================================================================
