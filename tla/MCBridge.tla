------------------------------ MODULE MCBridge ------------------------------
(***************************************************************************)
(* The bridge of one session: the threads around its queue, those that ask *)
(* the user, and the files attached to its messages.  They are explored    *)
(* side by side, each on its own: in a behaviour one part moves and the    *)
(* others stay in their initial states.                                    *)
(***************************************************************************)
EXTENDS SessionBridge

CONSTANTS Asker, MaxAsked,               \* BridgeInteractions
          MaxIds, MaxEdits, MaxTurns     \* Attachments

ASSUME FileBounds == MaxIds \in Nat

VARIABLES part, stage, asks, holder, counter, pending, result, woken, stopped, closed, snapshot,
          view, late, allowed, given, granted,
          file, staged, dedupe, copy, chips, work, messages, used, edited, removed, picked, read

asking == <<stage, asks, holder, counter, pending, result, woken, stopped, closed, snapshot, view,
            late, allowed, given, granted>>

attaching == <<file, staged, dedupe, copy, chips, work, messages, used, edited, removed, picked, read>>

I == INSTANCE BridgeInteractions
F == INSTANCE Attachments WITH queue <- messages, granted <- picked

MCInit == part \in {"queue", "interactions", "files"} /\ Init /\ I!Init /\ F!Init

MCNext ==
    \/ part = "queue" /\ Next /\ UNCHANGED <<part, asking, attaching>>
    \/ part = "interactions" /\ I!Next /\ UNCHANGED <<part, vars, attaching>>
    \/ part = "files" /\ F!Next /\ UNCHANGED <<part, vars, asking>>

\* The fairness of each part, while that part is the one that moves.
MCSpec ==
    /\ MCInit /\ [][MCNext]_<<part, vars, asking, attaching>>
    /\ WF_vars(part = "queue" /\ StdinServes)
    /\ WF_vars(part = "queue" /\ WorkerSteps)
    /\ WF_vars(part = "queue" /\ BuilderSteps)
    /\ WF_vars(part = "queue" /\ SuspensionSteps)
    /\ WF_vars(part = "queue" /\ ControlSteps)
    /\ WF_vars(part = "queue" /\ CloseSteps)
    /\ \A a \in Asker :
          /\ SF_asking(part = "interactions" /\ I!Proceed(a))
          /\ WF_asking(part = "interactions" /\ closed /\ I!Stop(a))
    /\ WF_asking(part = "interactions" /\ I!AnnounceResolved)
    /\ WF_asking(part = "interactions" /\ I!CancelOne)

\* The types of the parts.
TypesOK == TypeOK /\ I!TypeOK /\ F!TypeOK

\* A session in use is never suspended under its user, a captured one is the one
\* in place, and a closed bridge keeps none; a queued task has a worker, and a
\* rewind that blocks prompts is really under way (_runtime_use, suspend_if_idle,
\* close, _enqueue_task, _worker_loop, _queue_rewind); and a turn finds the files
\* that were attached to it, within its limits (AttachmentManager).
SessionIsServed ==
    /\ SuspendAlone /\ CapturedIsCurrent /\ ClosedForGood /\ WorkerPresent /\ RewindPendingHonest
    /\ part = "files" =>
          /\ F!KnownAreKept /\ F!CopiesAreKept /\ F!TurnsAreWithinLimits /\ F!TurnsReadTheirFiles

\* Tools run on answers the user gave, what waits is on the screen and nothing
\* else is (BridgeInteractionProvider, SessionRuntimeRegistry.publish).
InteractionsMatch == I!ApprovedByUser /\ I!WaitingIsShown /\ I!NoGhost

\* A stop stops, and whoever asks the user returns (cancel, cancel_all).
RequestsSettle == StopWorks /\ I!AskersReturn

=============================================================================
