----------------------------- MODULE MCSessions -----------------------------
(***************************************************************************)
(* The sessions of a project: the history of one of them, the life of its  *)
(* runtime, the tables of sessions of one workbench with three sessions     *)
(* ("tabs") and of two workbenches with one ("pair"), the transcript of a    *)
(* turn of two calls ("transcript") and of two turns of one ("turns"), and   *)
(* the view of a session at both ends of the pipe ("view").  The initial     *)
(* state chooses the part that moves.                                        *)
(***************************************************************************)
EXTENDS SessionHistory

CONSTANTS
    Process, Session, None, MaxBirths, MaxFailures,   \* SessionRegistry
    P1, S1,                                           \* one of the processes, one of the sessions
    Tool, MaxLifeTurns, MaxTimeouts                   \* SessionLifecycle

VARIABLES part,
          lturn, turns, tools, closing, closed, changer, closer, suspend, open, saved, finished,
          timeouts,
          rows, up, birth, host, visible, active, caller, rclosing, toClose, shown, failures,
          worker, taken, tturn, tsaid, todos, group, groups, segment, segments, text, since, split,
          blocks, running, calls, mixed, tplan, evidence, check,
          view, past, pipe, requests, serving, queue, front, seen, waiting, asking, lost

lifecycle == <<lturn, turns, tools, closing, closed, changer, closer, suspend, open, saved, finished,
               timeouts>>
registry == <<rows, up, birth, host, visible, active, caller, rclosing, toClose, shown, failures>>

transcript == <<worker, taken, tturn, tsaid, todos, group, groups, segment, segments, text, since,
                split, blocks, running, calls, mixed, tplan, evidence, check>>
views == <<view, past, pipe, requests, serving, queue, front, seen, waiting, asking, lost>>

L == INSTANCE SessionLifecycle WITH turn <- lturn, MaxTurns <- MaxLifeTurns
G == INSTANCE SessionRegistry WITH closing <- rclosing

T == INSTANCE SessionTranscript
         WITH turn <- tturn, said <- tsaid, rows <- blocks, active <- running, plan <- tplan,
              Tools <- {"browser_test", "read_file"}, Check <- "browser_test", Helpers <- TRUE,
              MaxTurns <- 1, MaxPieces <- 2, MaxTodos <- 1, MaxCalls <- 2, MaxPlanCalls <- 0
M == INSTANCE SessionTranscript
         WITH turn <- tturn, said <- tsaid, rows <- blocks, active <- running, plan <- tplan,
              Tools <- {"browser_test", "read_file"}, Check <- "browser_test", Helpers <- TRUE,
              MaxTurns <- 2, MaxPieces <- 2, MaxTodos <- 1, MaxCalls <- 1, MaxPlanCalls <- 0

V == INSTANCE SessionView WITH MaxEvents <- 3, MaxLost <- 1, Rows <- {1}

\* The history either with a change of the profile, or with a stop of the runtime.
MCInit ==
    /\ part \in {"history", "lifecycle", "tabs", "pair", "transcript", "turns", "view"}
    /\ journal = <<Epoch(<<>>)>> /\ events = <<>> /\ points = <<>>
    /\ meta = [history |-> NoBoundary, fork |-> NoBoundary, forkable |-> FALSE, checkpoint |-> 0]
    /\ conversation = <<>> /\ plan = 0 /\ profile = "plan" /\ turn = 0 /\ phase = "idle"
    /\ said = 0
    /\ spent \in {[turns |-> 0, rewinds |-> 0, stops |-> 0, switches |-> MaxSwitches],
                  [turns |-> 1, rewinds |-> 0, stops |-> MaxStops, switches |-> 0]}
    /\ part # "history" => spent.turns = 0
    /\ branch = <<>> /\ stable = <<>> /\ complete = <<>>
    /\ L!Init /\ (part # "lifecycle" => ~finished)
    /\ G!Init
    /\ T!Init /\ V!Init

History == part = "history" /\ Next /\ UNCHANGED <<part, lifecycle, registry, transcript, views>>
Lifecycle == part = "lifecycle" /\ L!Next /\ UNCHANGED <<part, vars, registry, transcript, views>>
\* One process that is never started again, or one session.
OneWorkbench ==
    /\ part = "tabs" /\ G!Steps(P1) /\ birth' = birth
    /\ UNCHANGED <<part, vars, lifecycle, transcript, views>>
TwoWorkbenches ==
    /\ part = "pair" /\ G!Next /\ \A p \in Process : G!Records(p)' \subseteq {S1}
    /\ UNCHANGED <<part, vars, lifecycle, transcript, views>>
Transcript ==
    /\ \/ part = "transcript" /\ T!Next
       \/ part = "turns" /\ M!Next
    /\ UNCHANGED <<part, vars, lifecycle, registry, views>>
View == part = "view" /\ V!Next /\ UNCHANGED <<part, vars, lifecycle, registry, transcript>>

MCNext == History \/ Lifecycle \/ OneWorkbench \/ TwoWorkbenches \/ Transcript \/ View

MCSpec ==
    /\ MCInit /\ [][MCNext]_<<part, vars, lifecycle, registry, transcript, views>>
    /\ WF_lifecycle(part = "lifecycle" /\ (L!CloseSteps \/ L!ChangeEnds))
    /\ WF_lifecycle(part = "lifecycle" /\ lturn = "cancelled" /\ L!EndTurn)
    /\ \A t \in Tool :
          WF_lifecycle(part = "lifecycle" /\ tools[t] = "cancelled" /\ L!ToolEnds(t))

\* The types of the parts.
SessionsTypeOK ==
    /\ TypeOK /\ L!TypeOK
    /\ G!TypeOK /\ T!TypeOK /\ V!TypeOK

\* What the journal gives back, at a resumption or for a recovery point, is the
\* conversation as it was; a fork ends at a whole turn, and the branch a rewind left
\* stays out of what is restored later (_restore_history, recovery_messages,
\* rewind_to_point, SessionStore.fork, read_history_events).
HistoryIsTrue == part = "history" => ResumeRestores /\ PointsRestore /\ ForkIsWhole /\ BranchIsKept

\* Turns and tools never outlive the resources they use, the runtime is changed
\* only while nothing runs (close, runtime_change, _turn_scope), and a session has
\* at most one runtime among all workbenches (reserve_runtime).
RuntimeIsGuarded == L!ResourcesOutliveWork /\ L!ChangesAlone /\ G!OneRuntime

\* The active session is one that is shown, and the front end knows which
\* (SessionRuntimeRegistry.create, switch, hide, announce).
TabsAreTrue == G!ActiveIsShown /\ G!FrontEndIsCurrent

\* Text is shown once and whole, nothing runs on that is over, results and plans are the ones that
\* were earned (SessionBridge, TuiState, WorkStateProjection).
TranscriptIsTrue ==
    part \in {"transcript", "turns"} =>
        T!TextIsShownOnce /\ T!GroupsClose /\ T!ResultsAreTheirs /\ T!PlanIsEarned

\* The front end shows the view as it was at some event, and at the last one when all is read
\* (SessionRuntimeRegistry.publish, reduceEvent, the loop over events of app.tsx).
ViewIsTrue == part = "view" => V!ShowsWhatWas /\ V!ShowsAll

\* Closing a runtime comes to an end (InteractiveSession.close).
ClosingReturns == L!ClosingReturns

=============================================================================
