----------------------------- MODULE SessionView -----------------------------
(***************************************************************************)
(* The view of a session on both ends of the pipe.  The registry of the     *)
(* workbench (core/session_runtime_registry.py) keeps it and writes every   *)
(* change as a numbered event; the front end (main.tsx, app.tsx, state.ts)   *)
(* applies the events to a view of its own, and asks for the whole view     *)
(* when it sees a gap.  At "initialize" the workbench takes the view and    *)
(* writes it a moment later, so that newer events may overtake it.          *)
(* What a row says is the numbers of the events that wrote it.              *)
(***************************************************************************)
EXTENDS Naturals, Sequences, SequencesExt

CONSTANTS MaxEvents, MaxLost, Rows

VARIABLES view,      \* the registry's: rows, turn, asked, sequence
          past,      \* history: the view as each event left it
          pipe,      \* what was written and not yet read, in order
          requests,  \* requests the workbench has not yet read
          serving,   \* the view taken for an answer, with its kind; or NoView
          queue,     \* eventQueue: read, not yet looked at
          front,     \* the view of the front end
          seen,      \* the sequence it takes for the last
          waiting,   \* events held back while it asks for the view
          asking,    \* whether it asks
          lost       \* numbers of events whose line could not be read

vars == <<view, past, pipe, requests, serving, queue, front, seen, waiting, asking, lost>>

Empty == [rows |-> <<>>, turn |-> "idle", asked |-> 0, cleared |-> FALSE, sequence |-> 0]
NoView == [type |-> "none", view |-> Empty]

Init ==
    /\ view = Empty /\ past = <<>> /\ pipe = <<>> /\ requests = <<"initialize">>
    /\ serving = NoView /\ queue = <<>> /\ front = Empty /\ seen = 0
    /\ waiting = <<>> /\ asking = FALSE /\ lost = {}

(***************************************************************************)
(* What an event does to a view.  Both ends do the same, except that a      *)
(* reset makes the turn idle only in the front end: the registry learns of  *)
(* it with the next turn_state (cleared).                                   *)
(***************************************************************************)
\* transcript: the row of that name is replaced, or added.
Put(rows, name, number) ==
    LET row == [name |-> name, body |-> <<number>>] IN
    IF \E i \in DOMAIN rows : rows[i].name = name
    THEN [i \in DOMAIN rows |-> IF rows[i].name = name THEN row ELSE rows[i]]
    ELSE Append(rows, row)

\* assistant_delta and transcript_update: a row that is not there stays away.
Write(rows, e) ==
    [i \in DOMAIN rows |->
        IF rows[i].name # e.row THEN rows[i]
        ELSE [rows[i] EXCEPT !.body = IF e.kind = "delta" THEN Append(@, e.sequence) ELSE <<e.sequence>>]]

Changed(v, e) ==
    CASE e.kind = "transcript" -> [v EXCEPT !.rows = Put(@, e.row, e.sequence)]
      [] e.kind \in {"delta", "update"} -> [v EXCEPT !.rows = Write(@, e)]
      [] e.kind = "reset" -> [v EXCEPT !.rows = <<>>, !.cleared = TRUE]
      [] e.kind \in {"running", "idle"} -> [v EXCEPT !.turn = e.kind, !.cleared = FALSE]
      [] e.kind = "interaction" -> [v EXCEPT !.asked = e.sequence]
      [] e.kind = "closed" -> [v EXCEPT !.asked = 0]

\* Mutant: events that were already applied are applied again.
ReducedAgain(v, e) ==
    [Changed(v, e) EXCEPT !.sequence = e.sequence, !.turn = IF e.kind = "reset" THEN "idle" ELSE @]

\* reduceEvent and reduceSessionEvent.
Reduced(v, e) ==
    IF e.sequence <= v.sequence THEN v
    ELSE [Changed(v, e) EXCEPT !.sequence = e.sequence,
                               !.turn = IF e.kind = "reset" THEN "idle" ELSE @]

Taken(v, other) == IF other.sequence < v.sequence THEN v ELSE other

(***************************************************************************)
(* The workbench.                                                          *)
(***************************************************************************)
\* publish: the view and the line in one step, under the lock of the registry.
Publish(kind, row) ==
    /\ view.sequence < MaxEvents
    /\ kind = "closed" => view.asked # 0
    /\ kind = "interaction" => view.asked = 0
    /\ kind = "reset" => view.asked = 0 /\ view.turn = "running"
    /\ LET e == [type |-> "event", kind |-> kind, row |-> row, sequence |-> view.sequence + 1]
       IN  /\ view' = [Changed(view, e) EXCEPT !.sequence = e.sequence]
           /\ pipe' = Append(pipe, e)
    /\ past' = Append(past, view')
    /\ UNCHANGED <<requests, serving, queue, front, seen, waiting, asking, lost>>

\* snapshot, for "initialize" or "sync_session" ...
Serve ==
    /\ requests # <<>> /\ serving = NoView
    /\ requests' = Tail(requests)
    /\ serving' = [type |-> IF Head(requests) = "initialize" THEN "view" ELSE "reply", view |-> view]
    /\ UNCHANGED <<view, past, pipe, queue, front, seen, waiting, asking, lost>>

\* ... which is written after the lock of the registry was let go.
WriteView ==
    /\ serving # NoView
    /\ pipe' = Append(pipe, serving) /\ serving' = NoView
    /\ UNCHANGED <<view, past, requests, queue, front, seen, waiting, asking, lost>>

(***************************************************************************)
(* The front end.                                                          *)
(***************************************************************************)
\* consumeMessage: an event waits for the loop over events.
Read ==
    /\ pipe # <<>> /\ Head(pipe).type # "reply"
    /\ queue' = Append(queue, Head(pipe)) /\ pipe' = Tail(pipe)
    /\ UNCHANGED <<view, past, requests, serving, front, seen, waiting, asking, lost>>

\* A line that does not parse is reported and forgotten; here only while no view is asked for.
Lose ==
    /\ lost = {} /\ MaxLost > 0 /\ ~asking
    /\ pipe # <<>> /\ Head(pipe).type = "event"
    /\ lost' = {Head(pipe).sequence} /\ pipe' = Tail(pipe)
    /\ UNCHANGED <<view, past, requests, serving, queue, front, seen, waiting, asking>>

\* Mutant: what was held back is dropped.
NewerDropped(number) == SelectSeq(waiting, LAMBDA e : e.sequence > number + MaxEvents)

\* The events held back that are newer than the view are dispatched one after the other.
Newer(number) == SelectSeq(waiting, LAMBDA e : e.sequence > number)

\* The answer, past all events that still are in the queue: the view is taken, unless the front
\* end is ahead of it, and what was held back follows.
Synced ==
    /\ pipe # <<>> /\ Head(pipe).type = "reply"
    /\ LET answer == Head(pipe).view
           rest == Newer(answer.sequence)
       IN  /\ front' = FoldLeft(Reduced, Taken(front, answer), rest)
           /\ seen' = IF rest = <<>> THEN answer.sequence ELSE Last(rest).sequence
    /\ waiting' = <<>> /\ asking' = FALSE /\ pipe' = Tail(pipe)
    /\ UNCHANGED <<view, past, requests, serving, queue, lost>>

\* Mutant: one event may be missing.
GapOfTwo(e) == e.sequence > seen + 2

Gap(e) == e.sequence > seen + 1

\* The loop over events: held back, a gap, or dispatched.
HoldBack(e) ==
    /\ asking /\ waiting' = Append(waiting, e)
    /\ UNCHANGED <<view, past, pipe, requests, serving, front, seen, asking, lost>>
AskForView(e) ==
    /\ ~asking /\ Gap(e)
    /\ waiting' = <<e>> /\ asking' = TRUE /\ requests' = Append(requests, "sync_session")
    /\ UNCHANGED <<view, past, pipe, serving, front, seen, lost>>
Dispatch(e) ==
    /\ ~asking /\ ~Gap(e)
    /\ front' = Reduced(front, e) /\ seen' = IF e.sequence > seen THEN e.sequence ELSE seen
    /\ UNCHANGED <<view, past, pipe, requests, serving, waiting, asking, lost>>

Look ==
    /\ queue # <<>> /\ Head(queue).type = "event" /\ queue' = Tail(queue)
    /\ HoldBack(Head(queue)) \/ AskForView(Head(queue)) \/ Dispatch(Head(queue))

\* A whole view: taken unless it is old, and its number is the last seen all the same.
LookAtView ==
    /\ queue # <<>> /\ Head(queue).type = "view" /\ queue' = Tail(queue)
    /\ front' = Taken(front, Head(queue).view) /\ seen' = Head(queue).view.sequence
    /\ UNCHANGED <<view, past, pipe, requests, serving, waiting, asking, lost>>

Next ==
    \/ \E kind \in {"transcript", "delta", "update"}, row \in Rows : Publish(kind, row)
    \/ \E kind \in {"reset", "running", "idle", "interaction", "closed"} : Publish(kind, 0)
    \/ Serve \/ WriteView \/ Read \/ Lose \/ Synced \/ Look \/ LookAtView

Spec == Init /\ [][Next]_vars

-----------------------------------------------------------------------------
TypeOK ==
    /\ view.sequence = Len(past) /\ front.sequence \in 0 .. view.sequence
    /\ seen \in 0 .. view.sequence /\ lost \subseteq 1 .. MaxEvents
    /\ ~asking => waiting = <<>>
    /\ \A i \in DOMAIN pipe : pipe[i].type \in {"event", "view", "reply"}

Then(number) == IF number = 0 THEN Empty ELSE past[number]

\* Whatever overtakes whatever, the front end shows the view as the event of its number left it:
\* none applied twice and none left out (reduceEvent, and the loop over events of app.tsx).
ShowsWhatWas ==
    LET was == Then(front.sequence) IN
    /\ front.rows = was.rows /\ front.asked = was.asked
    /\ ~was.cleared => front.turn = was.turn

\* Once everything written is read and no view is asked for, nothing is held back, and the front
\* end is behind by no event but one whose line was lost (sync_session, seen, waiting).
ShowsAll ==
    pipe = <<>> /\ queue = <<>> /\ requests = <<>> /\ serving = NoView =>
        /\ waiting = <<>> /\ ~asking
        /\ front.sequence + 1 .. view.sequence \subseteq lost

=============================================================================
