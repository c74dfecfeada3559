--------------------------- MODULE SessionHistory ---------------------------
(***************************************************************************)
(* The history of one session: the journal of its conversation (a message  *)
(* or a context epoch per line), its events, the recovery points, and the  *)
(* boundaries in session.json by which a resumed, a rewound and a forked    *)
(* session find their way back (core/interactive.py, agent/history.py,      *)
(* sessions/journal.py, sessions/store.py).                                 *)
(*                                                                          *)
(* A message is a number, a conversation the sequence of its messages       *)
(* without the system prompt.  Journal sequence numbers are positions.  A   *)
(* crash keeps what was written and loses what the process remembered.      *)
(* The transaction of a rewind is one step: WorkspaceTransaction has its    *)
(* detail, crashes within it included.                                      *)
(***************************************************************************)
EXTENDS Naturals, Sequences, SequencesExt, FiniteSets

CONSTANTS MaxTurns,        \* turns that begin
          MaxMessages,     \* messages said, summaries included
          MaxRewinds,      \* rewinds
          MaxStops,        \* crashes and suspensions of the runtime
          MaxSwitches      \* changes of the profile by the user

VARIABLES journal,      \* lines of journal.jsonl
          events,       \* lines of events.jsonl
          points,       \* recovery/points/*.json, by number
          meta,         \* session.json: history_boundary, fork_boundary, checkpoint
          conversation, \* messages the model is sent
          plan,         \* pending_plan_markdown; 0 when there is none
          profile,      \* the profile, saved in session.json as well
          turn,         \* turn_count
          phase,        \* where the turn is
          said,         \* messages so far
          spent,        \* what the bounds have let happen
          branch,       \* events the session has lived through, rewound ones left out
          stable,       \* conversation when history_boundary was written
          complete      \* conversation when fork_boundary was written

vars == <<journal, events, points, meta, conversation, plan, profile, turn, phase, said, spent,
          branch, stable, complete>>
ghosts == <<branch, stable, complete>>

NoBoundary == [turn |-> 0, seq |-> 0, events |-> 0]
Message(m) == [kind |-> "message", data |-> <<m>>]
Epoch(base) == [kind |-> "context_epoch", data |-> base]
Event(type, of) == [type |-> type, of |-> of]

Init ==
    /\ journal = <<Epoch(<<>>)>> /\ events = <<>> /\ points = <<>>
    /\ meta = [history |-> NoBoundary, fork |-> NoBoundary, forkable |-> FALSE, checkpoint |-> 0]
    /\ conversation = <<>> /\ plan = 0 /\ profile = "plan" /\ turn = 0 /\ phase = "idle"
    /\ said = 0 /\ spent = [turns |-> 0, rewinds |-> 0, stops |-> 0, switches |-> 0]
    /\ branch = <<>> /\ stable = <<>> /\ complete = <<>>

Spend(what) == spent' = [spent EXCEPT ![what] = @ + 1]

(***************************************************************************)
(* Reading the history back.                                                *)
(***************************************************************************)
\* Positions of the messages after an epoch up to a sequence number.
MessagesBetween(lines, epoch, seq) ==
    SelectSeq([i \in 1 .. Len(lines) |-> i],
              LAMBDA i : epoch < i /\ i <= seq /\ lines[i].kind = "message")

RecoveredLatest(lines, seq) ==
    LET epoch == CHOOSE i \in 1 .. Len(lines) :
                    /\ lines[i].kind = "context_epoch"
                    /\ \A j \in i + 1 .. Len(lines) : lines[j].kind # "context_epoch"
        added == MessagesBetween(lines, epoch, seq)
    IN  lines[epoch].data \o [k \in 1 .. Len(added) |-> lines[added[k]].data[1]]

\* The base of the last epoch up to the number, and every message after it.
Recovered(lines, seq) ==
    LET epochs == {i \in 1 .. Len(lines) : i <= seq /\ lines[i].kind = "context_epoch"}
        epoch == IF epochs = {} THEN 0 ELSE CHOOSE i \in epochs : \A j \in epochs : j <= i
        added == MessagesBetween(lines, epoch, seq)
    IN  (IF epoch = 0 THEN <<>> ELSE lines[epoch].data)
        \o [k \in 1 .. Len(added) |-> lines[added[k]].data[1]]

\* The events up to a count, each rewind among them taking away those after its target.
HistoryEvents(count) ==
    LET Add(kept, i) ==
            Append(IF events[i].type = "session_rewound"
                     THEN SelectSeq(kept, LAMBDA k : k <= points[events[i].of].events)
                     ELSE kept, i)
        upTo == [i \in 1 .. count |-> i]
        kept == FoldLeft(Add, <<>>, upTo)
    IN  [k \in 1 .. Len(kept) |-> events[kept[k]]]

\* The plan that a sequence of events leaves pending.
PendingPlan(past) ==
    LET at(type) == {i \in 1 .. Len(past) : past[i].type = type}
        open == {i \in at("plan_ready") : \A j \in at("plan_ready") \union at("execute") : j <= i}
    IN  IF open = {} THEN 0 ELSE past[CHOOSE i \in open : TRUE].of

\* The points a user may rewind to: the checkpoint, and those the kept events name.
RecoveryPoints ==
    LET kept == HistoryEvents(Len(events))
    IN  ({meta.checkpoint} \ {0})
        \union {kept[i].of : i \in {j \in 1 .. Len(kept) :
                  kept[j].type \in {"recovery_point_created", "session_rewound"}}}

(***************************************************************************)
(* A turn.                                                                  *)
(***************************************************************************)
Point(n) == [turn |-> n, seq |-> Len(journal), events |-> Len(events), profile |-> profile,
             conversation |-> conversation, plan |-> plan, branch |-> branch]

\* The first turn makes the origin, the point at which nothing has been said.
Begin ==
    /\ phase = "idle" /\ spent.turns < MaxTurns
    /\ Spend("turns") /\ turn' = turn + 1 /\ phase' = "running"
    /\ IF turn = 0 /\ \A p \in RecoveryPoints : points[p].turn # 0
         THEN /\ points' = Append(points, Point(0))
              /\ LET created == Event("recovery_point_created", Len(points) + 1)
                 IN  events' = Append(events, created) /\ branch' = Append(branch, created)
         ELSE UNCHANGED <<points, events, branch>>
    /\ UNCHANGED <<journal, meta, conversation, plan, profile, said, stable, complete>>

\* ContextHistory.append: the line first, the conversation after it.
Say ==
    /\ phase = "running" /\ said < MaxMessages
    /\ said' = said + 1
    /\ journal' = Append(journal, Message(said'))
    /\ conversation' = Append(conversation, said')
    /\ UNCHANGED <<events, points, meta, plan, profile, turn, phase, spent, ghosts>>

\* A compaction, within a turn or asked for between turns: one summary for what was said.
Compact ==
    /\ phase \in {"running", "idle"} /\ said < MaxMessages /\ Len(conversation) > 0
    /\ said' = said + 1
    /\ conversation' = <<said'>>
    /\ journal' = Append(journal, Epoch(conversation'))
    /\ UNCHANGED <<events, points, meta, plan, profile, turn, phase, spent, ghosts>>

\* The answer of a turn in the plan profile is the plan.
PlanReady ==
    /\ phase = "running" /\ profile = "plan" /\ Len(conversation) > 0
    /\ plan # Last(conversation)
    /\ plan' = Last(conversation)
    /\ LET ready == Event("plan_ready", plan')
       IN  events' = Append(events, ready) /\ branch' = Append(branch, ready)
    /\ UNCHANGED <<journal, points, meta, conversation, profile, turn, phase, said, spent, stable,
                   complete>>

\* The pending plan is executed: the profile changes, and the event says why.
ExecutePlan ==
    /\ phase = "running" /\ profile = "plan" /\ plan # 0
    /\ plan' = 0 /\ profile' = "coding-agent"
    /\ journal' = Append(journal, Epoch(conversation))
    /\ LET execute == Event("execute", 0)
       IN  events' = Append(events, execute) /\ branch' = Append(branch, execute)
    /\ UNCHANGED <<points, meta, conversation, turn, phase, said, spent, stable, complete>>

\* The user picks a profile: the plan is dropped, and no event tells it.
SwitchProfile ==
    /\ phase = "idle" /\ spent.switches < MaxSwitches
    /\ Spend("switches")
    /\ plan' = 0
    /\ \E p \in {"plan", "coding-agent"} :
          /\ profile' = p
          /\ journal' = IF p = profile THEN journal ELSE Append(journal, Epoch(conversation))
    /\ UNCHANGED <<events, points, meta, conversation, turn, phase, said, ghosts>>

\* A completed turn without unfinished tools: its point, then the checkpoint in session.json.
Publish ==
    /\ phase = "running"
    /\ points' = Append(points, Point(turn))
    /\ meta' = [meta EXCEPT !.checkpoint = Len(points) + 1]
    /\ phase' = "published"
    /\ UNCHANGED <<journal, events, conversation, plan, profile, turn, said, spent, ghosts>>

AnnounceTurnAsPoint ==
    /\ phase = "published"
    /\ LET created == Event("recovery_point_created", turn + spent.turns)
       IN  events' = Append(events, created) /\ branch' = Append(branch, created)
    /\ phase' = "announced"
    /\ UNCHANGED <<journal, points, meta, conversation, plan, profile, turn, said, spent, stable,
                   complete>>

AnnouncePoint ==
    /\ phase = "published"
    /\ LET created == Event("recovery_point_created", meta.checkpoint)
       IN  events' = Append(events, created) /\ branch' = Append(branch, created)
    /\ phase' = "announced"
    /\ UNCHANGED <<journal, points, meta, conversation, plan, profile, turn, said, spent, stable,
                   complete>>

Boundary == [turn |-> turn, seq |-> Len(journal), events |-> Len(events)]

CloseTurnForks ==
    /\ phase \in {"running", "announced"}
    /\ phase' = "idle"
    /\ meta' = [meta EXCEPT !.history = Boundary, !.fork = Boundary, !.forkable = TRUE]
    /\ stable' = conversation
    /\ complete' = IF phase = "announced" THEN conversation ELSE complete
    /\ UNCHANGED <<journal, events, points, conversation, plan, profile, turn, said, spent, branch>>

\* The boundary of a turn that completed, with its point or with tools that are not done
\* (neither a point nor a stable end), or that failed or was cancelled.
CloseTurn ==
    /\ phase \in {"running", "announced"}
    /\ phase' = "idle"
    /\ meta' = IF phase = "announced"
                 THEN [meta EXCEPT !.history = Boundary, !.fork = Boundary, !.forkable = TRUE]
                 ELSE [meta EXCEPT !.history = Boundary]
    /\ stable' = conversation
    /\ complete' = IF phase = "announced" THEN conversation ELSE complete
    /\ UNCHANGED <<journal, events, points, conversation, plan, profile, turn, said, spent, branch>>

(***************************************************************************)
(* Stopping, resuming, rewinding, forking.                                  *)
(***************************************************************************)
\* The process dies at any moment, or the idle runtime is released.
Stop ==
    /\ phase # "down" /\ spent.stops < MaxStops
    /\ Spend("stops")
    /\ phase' = "down" /\ conversation' = <<>> /\ plan' = 0 /\ turn' = 0
    /\ UNCHANGED <<journal, events, points, meta, profile, said, ghosts>>

\* A new conversation is begun, then replaced by the one of the boundary.
Resume ==
    /\ phase = "down"
    /\ conversation' = Recovered(journal, meta.history.seq)
    /\ journal' = journal \o <<Epoch(<<>>), Epoch(conversation')>>
    /\ turn' = meta.history.turn
    /\ plan' = PendingPlan(HistoryEvents(meta.history.events))
    /\ phase' = "idle"
    /\ UNCHANGED <<events, points, meta, profile, said, spent, ghosts>>

Rewind(p) ==
    /\ phase = "idle" /\ p \in RecoveryPoints /\ spent.rewinds < MaxRewinds
    /\ Spend("rewinds")
    /\ conversation' = Recovered(journal, points[p].seq)
    /\ journal' = Append(journal, Epoch(conversation'))
    /\ LET rewound == Event("session_rewound", p)
       IN  events' = Append(events, rewound) /\ branch' = Append(points[p].branch, rewound)
    /\ turn' = points[p].turn /\ profile' = points[p].profile
    /\ plan' = PendingPlan(HistoryEvents(points[p].events))
    /\ LET target == [turn |-> turn', seq |-> Len(journal'), events |-> Len(events')]
       IN  meta' = [history |-> target, fork |-> target, forkable |-> TRUE, checkpoint |-> p]
    /\ stable' = conversation' /\ complete' = conversation'
    /\ UNCHANGED <<points, phase, said>>

\* The branch starts with the lines up to the boundary, and resumes from them.
ForkedJournal == SubSeq(journal, 1, meta.fork.seq)

Next ==
    \/ Begin \/ Say \/ Compact \/ PlanReady \/ ExecutePlan \/ SwitchProfile
    \/ Publish \/ AnnouncePoint \/ CloseTurn \/ Stop \/ Resume
    \/ \E p \in 1 .. Len(points) : Rewind(p)

Spec == Init /\ [][Next]_vars

(***************************************************************************)
(* What must hold.                                                          *)
(***************************************************************************)
TypeOK ==
    /\ phase \in {"idle", "running", "published", "announced", "down"}
    /\ profile \in {"plan", "coding-agent"}
    /\ plan \in 0 .. said /\ said \in 0 .. MaxMessages
    /\ meta.checkpoint \in 0 .. Len(points)
    /\ meta.history.seq <= Len(journal) /\ meta.history.events <= Len(events)
    /\ \A p \in RecoveryPoints : p \in DOMAIN points /\ points[p].seq <= Len(journal)

\* Whatever was written after the boundary (a turn that was lost, the epochs of an earlier
\* resumption), resuming brings back the conversation the boundary was written for
\* (InteractiveSession._restore_history, SessionJournal.recovery_messages).
ResumeRestores == Recovered(journal, meta.history.seq) = stable

\* Every point the user is offered still leads to the conversation it was made at, however many
\* compactions, resumptions and other rewinds came after it (InteractiveSession.rewind_to_point).
PointsRestore ==
    \A p \in RecoveryPoints : Recovered(journal, points[p].seq) = points[p].conversation

\* A branch starts from the conversation of the last turn that ended whole, never from that of a
\* turn that failed or left tools behind (SessionStore.fork).
ForkIsWhole == meta.forkable => Recovered(ForkedJournal, meta.fork.seq) = complete

\* Rewinds within rewinds: the events a reader is given are those of the line of history the
\* session is on (SessionStore.read_history_events).
BranchIsKept == HistoryEvents(Len(events)) = branch

=============================================================================
